---- MODULE Spec2Model ----
(***************************************************************************)
(* go-pogo/buildinfo: the BuildInfo record of src/buildinfo.go (the        *)
(* variant with goVersion, Version, Revision, Time and Extra), its         *)
(* WithExtra / GoVersion / Map / String / MarshalJSON / UnmarshalJSON      *)
(* methods, and the parts of encoding/json, strings and time they call.    *)
(*                                                                         *)
(* A Go string is a sequence of one-character strings, so that the bytes   *)
(* MarshalJSON writes and the bytes UnmarshalJSON reads are the same       *)
(* objects and quoting, trimming and parsing are computed, not assumed.    *)
(***************************************************************************)
EXTENDS Integers, Sequences, FiniteSets, TLC

\* ------------------------------------------------------------------ bounds
\* largest number of entries of an Extra map given in a struct literal
MaxExtra == 2

\* ------------------------------------------------------------- characters
Q == "\""
BSL == "\\"

Digits == <<"0", "1", "2", "3", "4", "5", "6", "7", "8", "9">>

IsDigit(c) == c \in {"0", "1", "2", "3", "4", "5", "6", "7", "8", "9"}

DigitVal(c) == CHOOSE n \in 0..9 : Digits[n + 1] = c

\* s[i], or the empty string past the end of s
At(s, i) == IF i >= 1 /\ i <= Len(s) THEN s[i] ELSE ""

HasPrefixAt(s, i, p) == i + Len(p) - 1 <= Len(s) /\ SubSeq(s, i, i + Len(p) - 1) = p

\* ------------------------------------------------- constants of the package
keyVersion == <<"v", "e", "r", "s", "i", "o", "n">>
keyGoversion == <<"g", "o", "v", "e", "r", "s", "i", "o", "n">>
keyRevision == <<"r", "e", "v", "i", "s", "i", "o", "n">>
keyTime == <<"t", "i", "m", "e">>

EmptyVersion == <<"0", ".", "0", ".", "0">>

\* runtime.Version() of the toolchain that built the binary
RuntimeVersion == <<"g", "o", "1">>

\* isReservedKey without the comparison with keyTime
isReservedKeyNoTime(key) == key = keyVersion \/ key = keyGoversion \/ key = keyRevision

isReservedKey(key) ==
    key = keyVersion \/ key = keyGoversion \/ key = keyRevision \/ key = keyTime

\* ------------------------------------------------------------ strings pkg
\* unicode.IsSpace on the characters of the model
IsSpace(c) == c \in {" ", "\t", "\n", "\r", "\f"}

RECURSIVE TrimLeft(_)
TrimLeft(s) == IF s # <<>> /\ IsSpace(Head(s)) THEN TrimLeft(Tail(s)) ELSE s

RECURSIVE TrimRight(_)
TrimRight(s) ==
    IF s # <<>> /\ IsSpace(s[Len(s)]) THEN TrimRight(SubSeq(s, 1, Len(s) - 1)) ELSE s

TrimSpace(s) == TrimRight(TrimLeft(s))

\* ----------------------------------------------------------------- time pkg
\* A time.Time is its wall clock reading and its zone offset in minutes.
Time(y, mo, d, h, mi, s, ns, off) ==
    [year |-> y, month |-> mo, day |-> d, hour |-> h, minute |-> mi,
     second |-> s, nsec |-> ns, offset |-> off]

\* the zero value time.Time{}: January 1, year 1, 00:00:00.000000000 UTC
ZeroTime == Time(1, 1, 1, 0, 0, 0, 0, 0)

\* Time.IsZero: the instant is the zero instant, in whatever zone
IsZero(t) ==
    /\ t.second = 0
    /\ t.nsec = 0
    /\ \/ t.year = 1 /\ t.month = 1 /\ t.day = 1
          /\ t.hour * 60 + t.minute = t.offset
       \/ t.year = 0 /\ t.month = 12 /\ t.day = 31
          /\ t.hour * 60 + t.minute - 1440 = t.offset

Pad2(n) == <<Digits[((n \div 10) % 10) + 1], Digits[(n % 10) + 1]>>

Pad4(n) == Pad2(n \div 100) \o Pad2(n % 100)

FormatZone(off) ==
    IF off = 0 THEN <<"Z">>
    ELSE LET a == IF off < 0 THEN 0 - off ELSE off
         IN  <<IF off < 0 THEN "-" ELSE "+">> \o Pad2(a \div 60) \o <<":">> \o Pad2(a % 60)

\* Time.Format(time.RFC3339), layout "2006-01-02T15:04:05Z07:00": no
\* fractional seconds are written.
FormatRFC3339(t) ==
    Pad4(t.year) \o <<"-">> \o Pad2(t.month) \o <<"-">> \o Pad2(t.day) \o <<"T">>
    \o Pad2(t.hour) \o <<":">> \o Pad2(t.minute) \o <<":">> \o Pad2(t.second)
    \o FormatZone(t.offset)

IsLeap(y) == y % 4 = 0 /\ (y % 100 # 0 \/ y % 400 = 0)

DaysIn(mo, y) ==
    IF mo = 2 THEN (IF IsLeap(y) THEN 29 ELSE 28)
    ELSE IF mo \in {4, 6, 9, 11} THEN 30 ELSE 31

\* days from January 1 of year 1 to the day y-mo-d
RECURSIVE DaysBeforeMonth(_, _)
DaysBeforeMonth(mo, y) == IF mo = 1 THEN 0 ELSE DaysBeforeMonth(mo - 1, y) + DaysIn(mo - 1, y)

DaysSinceEpoch(y, mo, d) ==
    365 * (y - 1) + ((y - 1) \div 4) - ((y - 1) \div 100) + ((y - 1) \div 400)
    + DaysBeforeMonth(mo, y) + (d - 1)

\* Time.Weekday, Sunday = 0: January 1 of year 1 is a Monday
Weekday(t) == (DaysSinceEpoch(t.year, t.month, t.day) + 1) % 7

DayNames ==
    <<<<"S", "u", "n">>, <<"M", "o", "n">>, <<"T", "u", "e">>, <<"W", "e", "d">>, <<"T", "h", "u">>, <<"F", "r", "i">>, <<"S", "a", "t">>>>

MonthNames ==
    <<<<"J", "a", "n">>, <<"F", "e", "b">>, <<"M", "a", "r">>, <<"A", "p", "r">>, <<"M", "a", "y">>, <<"J", "u", "n">>,
      <<"J", "u", "l">>, <<"A", "u", "g">>, <<"S", "e", "p">>, <<"O", "c", "t">>, <<"N", "o", "v">>, <<"D", "e", "c">>>>

\* Time.Format(http.TimeFormat), layout "Mon, 02 Jan 2006 15:04:05 GMT":
\* the fields of t in its own zone, followed by the letters GMT
FormatHTTP(t) ==
    DayNames[Weekday(t) + 1] \o <<",", " ">> \o Pad2(t.day) \o <<" ">>
    \o MonthNames[t.month] \o <<" ">> \o Pad4(t.year) \o <<" ">>
    \o Pad2(t.hour) \o <<":">> \o Pad2(t.minute) \o <<":">> \o Pad2(t.second)
    \o <<" ", "G", "M", "T">>

\* n digits of s starting at i as a number, or -1
RECURSIVE Num(_, _, _)
Num(s, i, n) ==
    IF n = 0 THEN 0
    ELSE IF ~IsDigit(At(s, i + n - 1)) THEN -1
    ELSE LET hi == Num(s, i, n - 1)
         IN  IF hi < 0 THEN -1 ELSE hi * 10 + DigitVal(s[i + n - 1])

\* number of digits of s starting at i
RECURSIVE DigitRun(_, _)
DigitRun(s, i) == IF IsDigit(At(s, i)) THEN 1 + DigitRun(s, i + 1) ELSE 0

RECURSIVE Pow10(_)
Pow10(n) == IF n = 0 THEN 1 ELSE 10 * Pow10(n - 1)

\* time.Parse(time.RFC3339, v): [err, t]; t is the zero Time on error.
\* The hour ("15") may have one or two digits, every other field is of fixed
\* width; a fraction of a second is accepted after the seconds although the
\* layout has none; the zone is "Z" or a signed hh:mm.
ParseRFC3339(v) ==
    LET bad == [err |-> TRUE, t |-> ZeroTime]
        y == Num(v, 1, 4)
        mo == Num(v, 6, 2)
        d == Num(v, 9, 2)
        hw == IF IsDigit(At(v, 12)) /\ IsDigit(At(v, 13)) THEN 2 ELSE 1
        h == Num(v, 12, hw)
        p == 12 + hw
        mi == Num(v, p + 1, 2)
        s == Num(v, p + 4, 2)
        q == p + 6
        hasFrac == At(v, q) \in {".", ","} /\ IsDigit(At(v, q + 1))
        fw == IF hasFrac THEN DigitRun(v, q + 1) ELSE 0
        ns == IF ~hasFrac THEN 0
              ELSE IF fw <= 9 THEN Num(v, q + 1, fw) * Pow10(9 - fw)
              ELSE Num(v, q + 1, 9)
        z == IF hasFrac THEN q + 1 + fw ELSE q
        zh == Num(v, z + 1, 2)
        zm == Num(v, z + 4, 2)
        isZ == At(v, z) = "Z" /\ Len(v) = z
        isOff == /\ At(v, z) \in {"+", "-"}
                 /\ At(v, z + 3) = ":"
                 /\ Len(v) = z + 5
                 /\ zh >= 0 /\ zh <= 24
                 /\ zm >= 0 /\ zm <= 60
        off == IF isZ THEN 0
               ELSE IF At(v, z) = "-" THEN 0 - (zh * 60 + zm) ELSE zh * 60 + zm
    IN  IF /\ y >= 0
           /\ At(v, 5) = "-"
           /\ mo >= 1 /\ mo <= 12
           /\ At(v, 8) = "-"
           /\ d >= 1 /\ d <= DaysIn(mo, y)
           /\ At(v, 11) = "T"
           /\ h >= 0 /\ h <= 23
           /\ At(v, p) = ":"
           /\ mi >= 0 /\ mi <= 59
           /\ At(v, p + 3) = ":"
           /\ s >= 0 /\ s <= 59
           /\ (isZ \/ isOff)
        THEN [err |-> FALSE, t |-> Time(y, mo, d, h, mi, s, ns, off)]
        ELSE bad

\* ------------------------------------------------------------ encoding/json
\* the backspace character, which TLA+ strings cannot spell
Backspace == "<BS>"

\* any code point outside ASCII
NonAscii == "<U>"

\* the grave accent, which TLA+ strings cannot spell either
Grave == "<GRAVE>"

\* the printable ASCII characters, U+0020 .. U+007E
Ascii ==
  <<" ", "!", "\"", "#", "$", "%", "&", "'", "(", ")", "*", "+", ",", "-", ".", "/",
     "0", "1", "2", "3", "4", "5", "6", "7", "8", "9", ":", ";", "<", "=", ">", "?",
     "@", "A", "B", "C", "D", "E", "F", "G", "H", "I", "J", "K", "L", "M", "N", "O",
     "P", "Q", "R", "S", "T", "U", "V", "W", "X", "Y", "Z", "[", "\\", "]", "^", "_",
     Grave, "a", "b", "c", "d", "e", "f", "g", "h", "i", "j", "k", "l", "m", "n", "o",
     "p", "q", "r", "s", "t", "u", "v", "w", "x", "y", "z", "{", "|", "}", "~">>

\* the character of code point n
CodePoint(n) ==
    IF n = 8 THEN Backspace
    ELSE IF n = 9 THEN "\t"
    ELSE IF n = 10 THEN "\n"
    ELSE IF n = 12 THEN "\f"
    ELSE IF n = 13 THEN "\r"
    ELSE IF n >= 32 /\ n <= 126 THEN Ascii[n - 31]
    ELSE NonAscii

HexDigits ==
    <<"0", "1", "2", "3", "4", "5", "6", "7", "8", "9", "a", "b", "c", "d", "e", "f">>

UpperHex == <<"A", "B", "C", "D", "E", "F">>

IsHex(c) == (\E n \in 1..16 : HexDigits[n] = c) \/ (\E n \in 1..6 : UpperHex[n] = c)

HexVal(c) ==
    IF \E n \in 1..16 : HexDigits[n] = c
    THEN (CHOOSE n \in 1..16 : HexDigits[n] = c) - 1
    ELSE (CHOOSE n \in 1..6 : UpperHex[n] = c) + 9

\* characters below U+0020, which a JSON string must escape
IsControl(c) == c \in {"\t", "\n", "\r", "\f", Backspace}

\* scanner.go isSpace
IsJsonSpace(c) == c \in {" ", "\t", "\r", "\n"}

RECURSIVE SkipWS(_, _)
SkipWS(s, i) == IF IsJsonSpace(At(s, i)) THEN SkipWS(s, i + 1) ELSE i

\* what a scan returns: kind is "string", "number", "null", "bool",
\* "object" or "array"; str is the unquoted text of a string, mem the
\* members of an object in input order, next the index after the value
Scanned(k, str, mem, n) == [ok |-> TRUE, kind |-> k, str |-> str, mem |-> mem, next |-> n]

ScanFail == [ok |-> FALSE, kind |-> "", str |-> <<>>, mem |-> <<>>, next |-> 0]

\* the body of a string literal from index i on, unquoted (decode.go unquote)
RECURSIVE StrBody(_, _, _)
StrBody(s, i, acc) ==
    LET c == At(s, i)
        e == At(s, i + 1)
    IN  IF i > Len(s) THEN ScanFail
        ELSE IF c = Q THEN Scanned("string", acc, <<>>, i + 1)
        ELSE IF c = BSL THEN
            IF e \in {Q, BSL, "/"} /\ i + 1 <= Len(s) THEN StrBody(s, i + 2, Append(acc, e))
            ELSE IF e = "b" THEN StrBody(s, i + 2, Append(acc, Backspace))
            ELSE IF e = "f" THEN StrBody(s, i + 2, Append(acc, "\f"))
            ELSE IF e = "n" THEN StrBody(s, i + 2, Append(acc, "\n"))
            ELSE IF e = "r" THEN StrBody(s, i + 2, Append(acc, "\r"))
            ELSE IF e = "t" THEN StrBody(s, i + 2, Append(acc, "\t"))
            ELSE IF e = "u" /\ i + 5 <= Len(s) /\ \A k \in 2..5 : IsHex(s[i + k])
            THEN StrBody(s, i + 6,
                         Append(acc, CodePoint(HexVal(s[i + 2]) * 4096 + HexVal(s[i + 3]) * 256
                                               + HexVal(s[i + 4]) * 16 + HexVal(s[i + 5]))))
            ELSE ScanFail
        ELSE IF IsControl(c) THEN ScanFail
        ELSE StrBody(s, i + 1, Append(acc, c))

\* the index after the number that starts at i, or 0
ScanNumber(s, i) ==
    LET a == IF At(s, i) = "-" THEN i + 1 ELSE i
        b == IF At(s, a) = "0" THEN a + 1
             ELSE IF IsDigit(At(s, a)) THEN a + DigitRun(s, a)
             ELSE 0
        c == IF b = 0 THEN 0
             ELSE IF At(s, b) = "." THEN
                 (IF IsDigit(At(s, b + 1)) THEN b + 1 + DigitRun(s, b + 1) ELSE 0)
             ELSE b
        x == IF At(s, c + 1) \in {"+", "-"} THEN c + 2 ELSE c + 1
    IN  IF c = 0 THEN 0
        ELSE IF At(s, c) \in {"e", "E"} THEN
            (IF IsDigit(At(s, x)) THEN x + DigitRun(s, x) ELSE 0)
        ELSE c

\* one JSON value starting at the non-space index i (scanner.go)
RECURSIVE Value(_, _)
RECURSIVE Members(_, _, _)
RECURSIVE Elements(_, _)
Value(s, i) ==
    LET c == At(s, i)
        j == SkipWS(s, i + 1)
        n == ScanNumber(s, i)
    IN  IF c = Q THEN StrBody(s, i + 1, <<>>)
        ELSE IF c = "{" THEN
            (IF At(s, j) = "}" THEN Scanned("object", <<>>, <<>>, j + 1)
             ELSE Members(s, j, <<>>))
        ELSE IF c = "[" THEN
            (IF At(s, j) = "]" THEN Scanned("array", <<>>, <<>>, j + 1)
             ELSE Elements(s, j))
        ELSE IF c = "-" \/ IsDigit(c) THEN
            (IF n = 0 THEN ScanFail ELSE Scanned("number", <<>>, <<>>, n))
        ELSE IF HasPrefixAt(s, i, <<"n", "u", "l", "l">>) THEN Scanned("null", <<>>, <<>>, i + 4)
        ELSE IF HasPrefixAt(s, i, <<"t", "r", "u", "e">>) THEN Scanned("bool", <<>>, <<>>, i + 4)
        ELSE IF HasPrefixAt(s, i, <<"f", "a", "l", "s", "e">>)
        THEN Scanned("bool", <<>>, <<>>, i + 5)
        ELSE ScanFail

\* the members of an object from the key at index i on, up to its "}"
Members(s, i, acc) ==
    LET k == IF At(s, i) = Q THEN StrBody(s, i + 1, <<>>) ELSE ScanFail
        colon == SkipWS(s, k.next)
        v == IF k.ok /\ At(s, colon) = ":" THEN Value(s, SkipWS(s, colon + 1)) ELSE ScanFail
        sep == SkipWS(s, v.next)
        all == Append(acc, [key |-> k.str, kind |-> v.kind, str |-> v.str])
    IN  IF ~v.ok THEN ScanFail
        ELSE IF At(s, sep) = "," THEN Members(s, SkipWS(s, sep + 1), all)
        ELSE IF At(s, sep) = "}" THEN Scanned("object", <<>>, all, sep + 1)
        ELSE ScanFail

\* the elements of an array from the value at index i on, up to its "]"
Elements(s, i) ==
    LET v == Value(s, i)
        sep == SkipWS(s, v.next)
    IN  IF ~v.ok THEN ScanFail
        ELSE IF At(s, sep) = "," THEN Elements(s, SkipWS(s, sep + 1))
        ELSE IF At(s, sep) = "]" THEN Scanned("array", <<>>, <<>>, sep + 1)
        ELSE ScanFail

\* the whole text as one JSON value (checkValid), ScanFail when it is not
Scan(bytes) ==
    LET v == Value(bytes, SkipWS(bytes, 1))
    IN  IF v.ok /\ SkipWS(bytes, v.next) = Len(bytes) + 1 THEN v ELSE ScanFail

\* json.Valid
Valid(bytes) == Scan(bytes).ok

\* the keys of the members mem
MemberKeys(mem) == {mem[n].key : n \in 1..Len(mem)}

\* the value of the last member of mem with key k: a later duplicate
\* overwrites an earlier one in the map
LastOf(mem, k) ==
    LET n == CHOOSE x \in 1..Len(mem) :
                 mem[x].key = k /\ \A y \in (x + 1)..Len(mem) : mem[y].key # k
    IN  mem[n].str

\* json.Unmarshal(bytes, &fields) for fields of type map[string]string:
\* a syntax error, a top-level value that is neither an object nor null, and
\* a member value that is neither a string nor null are errors; null stores
\* the empty string.
Store(v) ==
    LET none == [k \in {} |-> <<>>]
    IN  IF ~v.ok THEN [err |-> TRUE, fields |-> none]
        ELSE IF v.kind = "null" THEN [err |-> FALSE, fields |-> none]
        ELSE IF v.kind = "object"
                /\ \A n \in 1..Len(v.mem) : v.mem[n].kind \in {"string", "null"}
        THEN [err |-> FALSE, fields |-> [k \in MemberKeys(v.mem) |-> LastOf(v.mem, k)]]
        ELSE [err |-> TRUE, fields |-> none]

\* the text is scanned once, and what the scan found is stored
Unmarshal(bytes) == CHOOSE d \in {Store(v) : v \in {Scan(bytes)}} : TRUE

\* ------------------------------------------------------- the BuildInfo type
\* no entries: a nil map and an empty map both range over nothing
NoExtra == [k \in {} |-> <<>>]

BuildInfo(gv, ver, rev, t, extra) ==
    [goVersion |-> gv, Version |-> ver, Revision |-> rev, Time |-> t, Extra |-> extra]

\* var bld BuildInfo
ZeroValue == BuildInfo(<<>>, <<>>, <<>>, ZeroTime, NoExtra)

\* withExtra that makes the map when Extra is nil and then does not store
withExtraLost(r, key, value) ==
    IF DOMAIN r.Extra = {} THEN r
    ELSE [r EXCEPT !.Extra = [k \in DOMAIN r.Extra \cup {key} |->
                                 IF k = key THEN value ELSE r.Extra[k]]]

\* bld.Extra[key] = value, after make() when Extra was nil
withExtra(r, key, value) ==
    [r EXCEPT !.Extra = [k \in DOMAIN r.Extra \cup {key} |->
                            IF k = key THEN value ELSE r.Extra[k]]]

\* version() without the fallback to EmptyVersion
versionRaw(r) == r.Version

version(r) == IF r.Version = <<>> THEN EmptyVersion ELSE r.Version

\* the record after GoVersion(): the runtime version is stored when the
\* field was empty
GoVersionStore(r) ==
    IF r.goVersion = <<>> THEN [r EXCEPT !.goVersion = RuntimeVersion] ELSE r

\* what GoVersion() returns
GoVersionOf(r) == GoVersionStore(r).goVersion

\* Map() copying every entry of Extra, reserved keys too
MapUnfiltered(r) ==
    LET first == {keyVersion, keyGoversion}
                 \cup (IF r.Revision # <<>> THEN {keyRevision} ELSE {})
                 \cup (IF ~IsZero(r.Time) THEN {keyTime} ELSE {})
    IN  [k \in first \cup DOMAIN r.Extra |->
            IF k \in DOMAIN r.Extra THEN r.Extra[k]
            ELSE IF k = keyVersion THEN version(r)
            ELSE IF k = keyGoversion THEN GoVersionOf(r)
            ELSE IF k = keyRevision THEN r.Revision
            ELSE FormatRFC3339(r.Time)]

\* Map(): the first-class keys are written first, then every entry of
\* Extra whose key is not reserved
Map(r) ==
    LET first == {keyVersion, keyGoversion}
                 \cup (IF r.Revision # <<>> THEN {keyRevision} ELSE {})
                 \cup (IF ~IsZero(r.Time) THEN {keyTime} ELSE {})
        extra == {key \in DOMAIN r.Extra : ~isReservedKey(key)}
    IN  [k \in first \cup extra |->
            IF k \in extra THEN r.Extra[k]
            ELSE IF k = keyVersion THEN version(r)
            ELSE IF k = keyGoversion THEN GoVersionOf(r)
            ELSE IF k = keyRevision THEN r.Revision
            ELSE FormatRFC3339(r.Time)]

\* String() returning the Version field itself when there is nothing else
StringField(r) ==
    IF r.Revision = <<>> /\ IsZero(r.Time) THEN r.Version
    ELSE version(r)
         \o (IF r.Revision # <<>> THEN <<" ">> \o r.Revision ELSE <<>>)
         \o (IF ~IsZero(r.Time)
             THEN <<" ", "(">> \o FormatRFC3339(r.Time) \o <<")">>
             ELSE <<>>)

\* String() in the format of the doc comment: "8.5.0 (fedcba @ 2020-...)"
StringAt(r) ==
    IF r.Revision = <<>> /\ IsZero(r.Time) THEN version(r)
    ELSE version(r) \o <<" ", "(">>
         \o r.Revision
         \o (IF r.Revision # <<>> /\ ~IsZero(r.Time) THEN <<" ", "@", " ">> ELSE <<>>)
         \o (IF ~IsZero(r.Time) THEN FormatRFC3339(r.Time) ELSE <<>>)
         \o <<")">>

String(r) ==
    IF r.Revision = <<>> /\ IsZero(r.Time) THEN version(r)
    ELSE version(r)
         \o (IF r.Revision # <<>> THEN <<" ">> \o r.Revision ELSE <<>>)
         \o (IF ~IsZero(r.Time)
             THEN <<" ", "(">> \o FormatRFC3339(r.Time) \o <<")">>
             ELSE <<>>)

\* the loop of writeJson over Extra, visiting its keys in the order given
RECURSIVE writeExtra(_, _)
writeExtra(extra, order) ==
    IF order = <<>> THEN <<>>
    ELSE <<Q, ",", Q>> \o Head(order) \o <<Q, ":", Q>> \o extra[Head(order)]
         \o writeExtra(extra, Tail(order))

\* writeJson, with the order in which range visits Extra
writeJson(r, order) ==
    <<"{", Q>> \o keyVersion \o <<Q, ":", Q>> \o version(r)
    \o (IF r.Revision # <<>>
        THEN <<Q, ",", Q>> \o keyRevision \o <<Q, ":", Q>> \o r.Revision
        ELSE <<>>)
    \o (IF ~IsZero(r.Time)
        THEN <<Q, ",", Q>> \o keyTime \o <<Q, ":", Q>> \o FormatRFC3339(r.Time)
        ELSE <<>>)
    \o <<Q, ",", Q>> \o keyGoversion \o <<Q, ":", Q>> \o GoVersionOf(r)
    \o writeExtra(r.Extra, order)
    \o <<Q, "}">>

\* the loop body without strings.TrimSpace
unmarshalFieldNoTrim(r, k, v) ==
    LET p == ParseRFC3339(v)
    IN  IF v = <<>> THEN [bld |-> r, err |-> FALSE]
        ELSE IF k = keyGoversion THEN [bld |-> r, err |-> FALSE]
        ELSE IF k = keyVersion
        THEN [bld |-> IF v # EmptyVersion THEN [r EXCEPT !.Version = v] ELSE r,
              err |-> FALSE]
        ELSE IF k = keyRevision THEN [bld |-> [r EXCEPT !.Revision = v], err |-> FALSE]
        ELSE IF k = keyTime THEN [bld |-> [r EXCEPT !.Time = p.t], err |-> p.err]
        ELSE [bld |-> [r EXCEPT !.Extra = [x \in DOMAIN r.Extra \cup {k} |->
                                              IF x = k THEN v ELSE r.Extra[x]]],
              err |-> FALSE]

\* the loop body with the error of time.Parse dropped
unmarshalFieldNoError(r, k, v0) ==
    [bld |-> unmarshalFieldNoTrim(r, k, TrimSpace(v0)).bld, err |-> FALSE]

\* the loop body storing the goversion key in the goVersion field
unmarshalFieldGoversion(r, k, v0) ==
    IF k = keyGoversion /\ TrimSpace(v0) # <<>>
    THEN [bld |-> [r EXCEPT !.goVersion = TrimSpace(v0)], err |-> FALSE]
    ELSE unmarshalFieldNoTrim(r, k, TrimSpace(v0))

\* the loop body storing the version also when it is EmptyVersion
unmarshalFieldAnyVersion(r, k, v0) ==
    IF k = keyVersion /\ TrimSpace(v0) # <<>>
    THEN [bld |-> [r EXCEPT !.Version = TrimSpace(v0)], err |-> FALSE]
    ELSE unmarshalFieldNoTrim(r, k, TrimSpace(v0))

\* one pass of the body of UnmarshalJSON's loop, for key k with value v0:
\* [bld, err]
unmarshalField(r, k, v0) ==
    LET v == TrimSpace(v0)
        p == ParseRFC3339(v)
    IN  IF v0 = <<>> \/ v = <<>> THEN [bld |-> r, err |-> FALSE]
        ELSE IF k = keyGoversion THEN [bld |-> r, err |-> FALSE]
        ELSE IF k = keyVersion
        THEN [bld |-> IF v # EmptyVersion THEN [r EXCEPT !.Version = v] ELSE r,
              err |-> FALSE]
        ELSE IF k = keyRevision THEN [bld |-> [r EXCEPT !.Revision = v], err |-> FALSE]
        ELSE IF k = keyTime THEN [bld |-> [r EXCEPT !.Time = p.t], err |-> p.err]
        ELSE [bld |-> withExtra(r, k, v), err |-> FALSE]

\* the loop of UnmarshalJSON over fields, visiting its keys in the order
\* given and returning at the first error
RECURSIVE unmarshalLoop(_, _, _)
unmarshalLoop(r, fields, order) ==
    IF order = <<>> THEN [bld |-> r, err |-> FALSE]
    ELSE LET one == unmarshalField(r, Head(order), fields[Head(order)])
         IN  IF one.err THEN one ELSE unmarshalLoop(one.bld, fields, Tail(order))

\* UnmarshalJSON on record r, given what json.Unmarshal(bytes, &fields)
\* returned and the order in which range visits fields: [bld, err]
UnmarshalJSON(r, dec, order) ==
    IF dec.err THEN [bld |-> r, err |-> TRUE]
    ELSE unmarshalLoop(r, dec.fields, order)

\* ----------------------------------------------- runtime/debug and New
settingRevision == <<"v", "c", "s", ".", "r", "e", "v", "i", "s", "i", "o", "n">>
settingTime == <<"v", "c", "s", ".", "t", "i", "m", "e">>

\* what debug.ReadBuildInfo returns: ok is its second result, and the other
\* fields are those of the *debug.BuildInfo, which is nil when ok is false
DebugBuildInfo(ok, gv, path, mainVersion, settings) ==
    [ok |-> ok, GoVersion |-> gv, Path |-> path, MainVersion |-> mainVersion,
     Settings |-> settings]

NilInfo == DebugBuildInfo(FALSE, <<>>, <<>>, <<>>, <<>>)

Setting(k, v) == [Key |-> k, Value |-> v]

\* the loop of init over bi.Settings
RECURSIVE initSettings(_, _)
initSettings(r, settings) ==
    IF settings = <<>> THEN r
    ELSE LET set == Head(settings)
             one == IF set.Key = settingRevision THEN [r EXCEPT !.Revision = set.Value]
                    ELSE IF set.Key = settingTime
                    THEN [r EXCEPT !.Time = ParseRFC3339(set.Value).t]
                    ELSE r
         IN  initSettings(one, Tail(settings))

\* New(ver) where debug.ReadBuildInfo returns bi: [bld, panicked].  init
\* drops the ok result and reads bi.GoVersion, which dereferences a nil
\* pointer when there is no build information.
New(ver, bi) ==
    IF ~bi.ok
    THEN [bld |-> ZeroValue, panicked |-> TRUE]
    ELSE [bld |-> initSettings(BuildInfo(bi.GoVersion, ver, <<>>, ZeroTime, NoExtra),
                               bi.Settings),
          panicked |-> FALSE]

\* ------------------------- the BuildInfo type that keeps *debug.BuildInfo
ErrNoBuildInfo == "no build information available"
Devel == <<"(", "d", "e", "v", "e", "l", ")">>

\* BuildInfo{info: .., AltName: .., AltVersion: .., Extra: ..}; a nil info
\* is NilInfo
BuildInfoAlt(inf, altName, altVersion, extra) ==
    [info |-> inf, AltName |-> altName, AltVersion |-> altVersion, Extra |-> extra]

\* bld.init() where debug.ReadBuildInfo returns bi: [bld, ok]
initAlt(r, bi) ==
    IF r.info.ok THEN [bld |-> r, ok |-> TRUE]
    ELSE IF bi.ok THEN [bld |-> [r EXCEPT !.info = bi], ok |-> TRUE]
    ELSE [bld |-> r, ok |-> FALSE]

\* New returning a record whatever init returns
NewAltNoError(altVersion, bi) ==
    [bld |-> initAlt(BuildInfoAlt(NilInfo, <<>>, altVersion, NoExtra), bi).bld,
     nil |-> FALSE, err |-> ""]

\* New(altVersion): [bld, nil, err], nil when the pointer returned is nil
\* and err the text of the error, empty for a nil error
NewAlt(altVersion, bi) ==
    LET r == BuildInfoAlt(NilInfo, <<>>, altVersion, NoExtra)
        i == initAlt(r, bi)
    IN  IF ~i.ok THEN [bld |-> r, nil |-> TRUE, err |-> ErrNoBuildInfo]
        ELSE [bld |-> i.bld, nil |-> FALSE, err |-> ""]

\* strings.LastIndex(s, sep) for a separator of one character
LastIndex(s, sep) ==
    IF \E n \in 1..Len(s) : s[n] = sep
    THEN (CHOOSE n \in 1..Len(s) : s[n] = sep /\ \A m \in (n + 1)..Len(s) : s[m] # sep) - 1
    ELSE -1

\* bld.Name(): [bld, str]
Name(r, bi) ==
    LET i == initAlt(r, bi)
        path == i.bld.info.Path
    IN  IF r.AltName # <<>> THEN [bld |-> r, str |-> r.AltName]
        ELSE IF ~i.ok THEN [bld |-> i.bld, str |-> <<>>]
        ELSE [bld |-> i.bld, str |-> SubSeq(path, 1, LastIndex(path, "/") + 1)]

\* bld.Version(): [bld, str]
Version(r, bi) ==
    LET i == initAlt(r, bi)
        main == i.bld.info.MainVersion
    IN  IF r.AltVersion # <<>> THEN [bld |-> r, str |-> r.AltVersion]
        ELSE IF ~i.ok \/ main = <<>> \/ main = Devel THEN [bld |-> i.bld, str |-> EmptyVersion]
        ELSE [bld |-> i.bld, str |-> main]

\* ------------------------------------------------------ map iteration order
\* the elements of the set S in one fixed order
RECURSIVE SeqOf(_)
SeqOf(S) ==
    IF S = {} THEN <<>>
    ELSE LET x == CHOOSE y \in S : TRUE IN <<x>> \o SeqOf(S \ {x})

\* every order in which range may visit the keys S
RECURSIVE Orders(_)
Orders(S) ==
    IF S = {} THEN {<<>>}
    ELSE UNION {{<<x>> \o o : o \in Orders(S \ {x})} : x \in S}

\* The orders of the decoded keys that UnmarshalJSON can tell apart.  The
\* loop body writes a different field, or a different Extra entry, for each
\* key, so two orders differ in their outcome only when the loop returns
\* early, which only a time value that does not parse causes: what matters
\* then is the set of keys visited before the time key.
FieldOrders(fields) ==
    LET keys == DOMAIN fields
        stops == keyTime \in keys /\ unmarshalField(ZeroValue, keyTime, fields[keyTime]).err
    IN  IF stops
        THEN {SeqOf(before) \o <<keyTime>> : before \in SUBSET (keys \ {keyTime})}
        ELSE {SeqOf(keys)}

\* ------------------------------------------------------- values of the model
V1 == <<"v", "1">>
RevFed == <<"f", "e", "d">>
\* a revision with a double quote in it
RevQuote == <<"a", Q>>
Bar == <<"b", "a", "r">>
kFoo == <<"f", "o", "o">>
kDate == <<"d", "a", "t", "e">>
kBranch == <<"b", "r", "a", "n", "c", "h">>

\* 2020-06-16T19:53:00Z, the time of the tests
T2020 == Time(2020, 6, 16, 19, 53, 0, 0, 0)
\* the same with half a second more
T2020Frac == Time(2020, 6, 16, 19, 53, 0, 500000000, 0)

Versions == {<<>>, EmptyVersion, V1}
Revisions == {<<>>, RevFed, RevQuote}
\* the same instant as T2020 on a clock two hours ahead of UTC
T2020Zone == Time(2020, 6, 16, 21, 53, 0, 0, 120)

Times == {ZeroTime, T2020, T2020Frac, T2020Zone}
ExtraVals == {Bar}
\* keys of an Extra map written as a struct literal: Extra is an exported
\* field, so a literal may hold any key, a reserved one too
LiteralKeys == {kFoo, kDate, keyTime}
\* keys passed to WithExtra
CallKeys == {kFoo, kDate, keyVersion, keyGoversion, keyRevision, keyTime}

\* a binary built from a module outside version control
InfoPlain == DebugBuildInfo(TRUE, RuntimeVersion, <<"/", "a">>, <<>>, <<>>)
\* a binary built from a checkout: vcs.revision=fed, vcs.time=2020-06-16T19:53:00Z
InfoVcs ==
    DebugBuildInfo(TRUE, RuntimeVersion, <<"/", "a">>, <<>>,
                   <<Setting(settingRevision, RevFed),
                     Setting(settingTime, FormatRFC3339(T2020))>>)
\* the build information the running binary may carry
Infos == {NilInfo, InfoPlain, InfoVcs}

\* every map from a set of at most n of the keys K to the values V
MapsOver(K, V, n) == UNION {[S -> V] : S \in {T \in SUBSET K : Cardinality(T) <= n}}

\* BuildInfo{Version: .., Revision: .., Time: .., Extra: ..}
Literals ==
    {BuildInfo(<<>>, ver, rev, t, extra) :
        ver \in Versions, rev \in Revisions, t \in Times,
        extra \in MapsOver(LiteralKeys, ExtraVals, MaxExtra)}

\* JSON texts given to UnmarshalJSON
Str(s) == <<Q>> \o s \o <<Q>>
Member(k, v) == Str(k) \o <<":">> \o Str(v)
Obj1(m) == <<"{">> \o m \o <<"}">>
Obj2(m, n) == <<"{">> \o m \o <<",">> \o n \o <<"}">>

\* {"version":"","foo":""}
DocEmptyValues == Obj2(Member(keyVersion, <<>>), Member(kFoo, <<>>))
\* {"version":"v1","foo":"bar"}
DocExample == Obj2(Member(keyVersion, V1), Member(kFoo, Bar))
\* {"foo":" ","date":" bar "}
DocBlank == Obj2(Member(kFoo, <<" ">>), Member(kDate, <<" ">> \o Bar \o <<" ">>))
\* {"revision":"fed","time":"v1"}
DocBadTime == Obj2(Member(keyRevision, RevFed), Member(keyTime, V1))
\* {"time":"2020-06-16T19:53:00Z","goversion":"v1"}
DocTime == Obj2(Member(keyTime, FormatRFC3339(T2020)), Member(keyGoversion, V1))
\* {"version":"0.0.0"}
DocEmptyVersion == Obj1(Member(keyVersion, EmptyVersion))
\* {"version":
DocSyntax == <<"{">> \o Str(keyVersion) \o <<":">>
\* {"foo":1}
DocNumber == Obj1(Str(kFoo) \o <<":", "1">>)
\* null
DocNull == <<"n", "u", "l", "l">>
\* {"time":" "}
DocBlankTime == Obj1(Member(keyTime, <<" ">>))

Docs ==
    {DocEmptyValues, DocExample, DocBlank, DocBadTime, DocTime, DocEmptyVersion,
     DocSyntax, DocNumber, DocNull, DocBlankTime}

\* ------------------------------------------------------------------- state
VARIABLES
    bld,    \* the record the program works on
    call,   \* the last call made on it, with the record as it was before
    ret,    \* what that call returned
    info,   \* the build information embedded in the running binary
    hist    \* how often runtime.Version() was fetched and goVersion stored

vars == <<bld, call, ret, info, hist>>

NoHist == [fetched |-> 0, stored |-> 0]

\* op: the method called ("literal": none yet); recv: the receiver before
\* the call; key, value: the arguments of WithExtra; bytes: the argument of
\* UnmarshalJSON; json: bytes are what the last MarshalJSON returned, and
\* src is the record that was marshalled
Call(op, recv, key, value, bytes, json, src) ==
    [op |-> op, recv |-> recv, key |-> key, value |-> value, bytes |-> bytes,
     json |-> json, src |-> src]

SimpleCall(op) == Call(op, bld, <<>>, <<>>, <<>>, FALSE, ZeroValue)

\* str: the string or bytes returned; map: the map returned; err: a
\* non-nil error was returned; panicked: the call panicked; self: the
\* pointer returned is the receiver
Ret(str, map, err, panicked, self) ==
    [str |-> str, map |-> map, err |-> err, panicked |-> panicked, self |-> self]

NoRet == Ret(<<>>, NoExtra, FALSE, FALSE, FALSE)

Init ==
    /\ info \in Infos
    /\ hist = NoHist
    /\ bld \in Literals
    /\ call = Call("literal", ZeroValue, <<>>, <<>>, <<>>, FALSE, ZeroValue)
    /\ ret = NoRet

\* bld = New(ver): the program goes on with the new record, or with the one
\* it had when New panics
CallNew ==
    \E ver \in Versions :
        \E out \in {New(ver, info)} :
            /\ call' = Call("New", bld, <<>>, ver, <<>>, FALSE, ZeroValue)
            /\ bld' = IF out.panicked THEN bld ELSE out.bld
            /\ ret' = Ret(<<>>, NoExtra, FALSE, out.panicked, FALSE)
            /\ UNCHANGED <<info, hist>>

\* bld.WithExtra(key, value)
CallWithExtra ==
    \E key \in CallKeys, value \in ExtraVals :
        /\ call' = Call("WithExtra", bld, key, value, <<>>, FALSE, ZeroValue)
        /\ IF isReservedKey(key)
           THEN /\ bld' = bld
                /\ ret' = Ret(<<>>, NoExtra, FALSE, TRUE, FALSE)
           ELSE /\ bld' = withExtra(bld, key, value)
                /\ ret' = Ret(<<>>, NoExtra, FALSE, FALSE, TRUE)
        /\ UNCHANGED <<info, hist>>

\* bld.GoVersion()
CallGoVersion ==
    /\ call' = SimpleCall("GoVersion")
    /\ bld' = GoVersionStore(bld)
    /\ ret' = Ret(GoVersionOf(bld), NoExtra, FALSE, FALSE, FALSE)
    /\ UNCHANGED <<info, hist>>

\* bld.Map()
CallMap ==
    /\ call' = SimpleCall("Map")
    /\ bld' = GoVersionStore(bld)
    /\ ret' = Ret(<<>>, Map(bld), FALSE, FALSE, FALSE)
    /\ UNCHANGED <<info, hist>>

\* bld.String()
CallString ==
    /\ call' = SimpleCall("String")
    /\ bld' = bld
    /\ ret' = Ret(String(bld), NoExtra, FALSE, FALSE, FALSE)
    /\ UNCHANGED <<info, hist>>

\* bld.MarshalJSON()
CallMarshalJSON ==
    \E order \in Orders(DOMAIN bld.Extra) :
        /\ call' = SimpleCall("MarshalJSON")
        /\ bld' = GoVersionStore(bld)
        /\ ret' = Ret(writeJson(bld, order), NoExtra, FALSE, FALSE, FALSE)
        /\ UNCHANGED <<info, hist>>

\* what json.Unmarshal returns for each of Docs
DocFields == [bytes \in Docs |-> Unmarshal(bytes)]

ContentType == <<"C", "o", "n", "t", "e", "n", "t", "-", "T", "y", "p", "e">>
LastModified == <<"L", "a", "s", "t", "-", "M", "o", "d", "i", "f", "i", "e", "d">>
ApplicationJson ==
    <<"a", "p", "p", "l", "i", "c", "a", "t", "i", "o", "n", "/", "j", "s", "o", "n">>

\* the header the handler sets for record r
Header(r) ==
    [h \in {ContentType} \cup (IF IsZero(r.Time) THEN {} ELSE {LastModified}) |->
        IF h = ContentType THEN ApplicationJson ELSE FormatHTTP(r.Time)]

\* HTTPHandler(bld).ServeHTTP(w, nil): ret.map is the header of the
\* response and ret.str its body
CallServeHTTP ==
    \E order \in Orders(DOMAIN bld.Extra) :
        /\ call' = SimpleCall("ServeHTTP")
        /\ bld' = GoVersionStore(bld)
        /\ ret' = Ret(writeJson(bld, order), Header(bld), FALSE, FALSE, FALSE)
        /\ UNCHANGED <<info, hist>>

\* recv.UnmarshalJSON(bytes), where json.Unmarshal returns dec, for the order
\* in which the decoded map is visited; json and src as in Call
unmarshalInto(recv, bytes, dec, json, src) ==
    \E order \in FieldOrders(dec.fields) :
        \E out \in {UnmarshalJSON(recv, dec, order)} :
            /\ call' = Call("UnmarshalJSON", recv, <<>>, <<>>, bytes, json, src)
            /\ bld' = out.bld
            /\ ret' = Ret(<<>>, NoExtra, out.err, FALSE, FALSE)
            /\ UNCHANGED <<info, hist>>

\* bld.UnmarshalJSON(doc) on the record as it is
CallUnmarshalJSON ==
    \E bytes \in Docs : unmarshalInto(bld, bytes, DocFields[bytes], FALSE, ZeroValue)

\* data, _ := bld.MarshalJSON(); var have BuildInfo; have.UnmarshalJSON(data):
\* the bytes MarshalJSON has just returned are decoded into a new record,
\* and the program goes on with that record
CallUnmarshalJSONFresh ==
    /\ call.op = "MarshalJSON"
    /\ \E dec \in {Unmarshal(ret.str)} : unmarshalInto(ZeroValue, ret.str, dec, TRUE, call.recv)

Next ==
    \/ CallNew
    \/ CallWithExtra
    \/ CallGoVersion
    \/ CallMap
    \/ CallString
    \/ CallMarshalJSON
    \/ CallServeHTTP
    \/ CallUnmarshalJSON
    \/ CallUnmarshalJSONFresh

Spec == Init /\ [][Next]_vars

\* ------------------------- the program with the record that keeps the info
\* import paths of the main package
PathRoot == <<"/">>
PathFoobar == <<"/", "f", "o", "o", "b", "a", "r">>
PathBarbaz == <<"b", "a", "r", "b", "a", "z">>
PathApp ==
    <<"/", "m", "y", "-", "p", "r", "o", "j", "e", "c", "t">>
    \o <<"/", "c", "m", "d", "/", "n", "a", "m", "e", "-", "o", "f", "-", "a", "p", "p">>
Paths == {<<>>, PathRoot, PathFoobar, PathBarbaz, PathApp}
MainVersions == {<<>>, Devel, V1}
AltNames == {<<>>, kFoo}
AltVersions == {<<>>, V1, EmptyVersion}

InfosAlt ==
    {NilInfo} \cup {DebugBuildInfo(TRUE, RuntimeVersion, path, main, <<>>) :
                       path \in Paths, main \in MainVersions}

\* BuildInfo{AltName: .., AltVersion: ..}
LiteralsAlt ==
    {BuildInfoAlt(NilInfo, name, ver, NoExtra) : name \in AltNames, ver \in AltVersions}

\* str: the string returned; nil: the pointer returned is nil; err: the text
\* of the error returned, empty for a nil error
RetAlt(str, nil, err) == [str |-> str, nil |-> nil, err |-> err]

InitAlt ==
    /\ info \in InfosAlt
    /\ hist = NoHist
    /\ bld \in LiteralsAlt
    /\ call = Call("literal", bld, <<>>, <<>>, <<>>, FALSE, ZeroValue)
    /\ ret = RetAlt(<<>>, FALSE, "")

\* bld, err = New(altVersion): the program goes on with the new record, or
\* with the one it had when New returns nil
CallNewAlt ==
    \E altVersion \in AltVersions :
        \E out \in {NewAlt(altVersion, info)} :
            /\ call' = Call("New", bld, <<>>, altVersion, <<>>, FALSE, ZeroValue)
            /\ bld' = IF out.nil THEN bld ELSE out.bld
            /\ ret' = RetAlt(<<>>, out.nil, out.err)
            /\ UNCHANGED <<info, hist>>

\* bld.Name()
CallName ==
    \E out \in {Name(bld, info)} :
        /\ call' = Call("Name", bld, <<>>, <<>>, <<>>, FALSE, ZeroValue)
        /\ bld' = out.bld
        /\ ret' = RetAlt(out.str, FALSE, "")
        /\ UNCHANGED <<info, hist>>

\* bld.Version()
CallVersion ==
    \E out \in {Version(bld, info)} :
        /\ call' = Call("Version", bld, <<>>, <<>>, <<>>, FALSE, ZeroValue)
        /\ bld' = out.bld
        /\ ret' = RetAlt(out.str, FALSE, "")
        /\ UNCHANGED <<info, hist>>

NextAlt ==
    \/ CallNewAlt
    \/ CallName
    \/ CallVersion

SpecAlt == InitAlt /\ [][NextAlt]_vars

\* ------------------------------- one record shared by several goroutines
\* Here bld is the goVersion field of the shared record as the two words of
\* a Go string, call[t] is the frame of goroutine t and ret[t] the string its
\* call returned.  GoVersion takes no lock, so its reads and writes of the
\* field are steps of their own, one word at a time in either order.
NumThreads == 2
Threads == 1..NumThreads

WordNames == {"ptr", "len"}
\* the field holding a string with data pointer ptr and length len
Words(ptr, len) == [ptr |-> ptr, len |-> len]
\* the empty string of a zero-value record
EmptyWords == Words("nil", 0)
\* the string runtime.Version() returns
VersionWords == Words("text", Len(RuntimeVersion))

\* the methods that call GoVersion()
ThreadOps == {"GoVersion", "Map", "MarshalJSON", "ServeHTTP"}

\* op: the method goroutine t runs; pc: where it is in GoVersion(); wrote:
\* the words of the field it has stored; seen: the words it has loaded
Frame(op, pc, wrote, seen) == [op |-> op, pc |-> pc, wrote |-> wrote, seen |-> seen]
Idle == Frame("", "idle", {}, [w \in {} |-> 0])

InitThreads ==
    /\ info = InfoPlain
    /\ hist = NoHist
    /\ bld \in {EmptyWords, VersionWords}
    /\ call = [t \in Threads |-> Idle]
    /\ ret = [t \in Threads |-> EmptyWords]

\* goroutine t calls one of the methods, which calls bld.GoVersion()
Enter(t) ==
    /\ call[t].pc \in {"idle", "done"}
    /\ \E op \in ThreadOps : call' = [call EXCEPT ![t] = Frame(op, "check", {}, Idle.seen)]
    /\ UNCHANGED <<bld, ret, info, hist>>

\* if bld.goVersion == "": the comparison reads the length
CheckEmpty(t) ==
    /\ call[t].pc = "check"
    /\ call' = [call EXCEPT ![t].pc = IF bld.len = 0 THEN "fetch" ELSE "load"]
    /\ UNCHANGED <<bld, ret, info, hist>>

\* runtime.Version()
Fetch(t) ==
    /\ call[t].pc = "fetch"
    /\ call' = [call EXCEPT ![t].pc = "store"]
    /\ hist' = [hist EXCEPT !.fetched = @ + 1]
    /\ UNCHANGED <<bld, ret, info>>

\* bld.goVersion = ..: one word of the field is stored
StoreWord(t) ==
    /\ call[t].pc = "store"
    /\ \E w \in WordNames \ call[t].wrote :
           LET wrote == call[t].wrote \cup {w}
               done == wrote = WordNames
           IN  /\ bld' = [bld EXCEPT ![w] = VersionWords[w]]
               /\ call' = [call EXCEPT ![t].wrote = wrote,
                                       ![t].pc = IF done THEN "load" ELSE "store"]
               /\ hist' = [hist EXCEPT !.stored = IF done THEN @ + 1 ELSE @]
    /\ UNCHANGED <<ret, info>>

\* return bld.goVersion: one word of the field is loaded, and with the
\* second one the call returns
LoadWord(t) ==
    /\ call[t].pc = "load"
    /\ \E w \in WordNames \ DOMAIN call[t].seen :
           LET seen == [x \in DOMAIN call[t].seen \cup {w} |->
                           IF x = w THEN bld[w] ELSE call[t].seen[x]]
               done == DOMAIN seen = WordNames
           IN  /\ call' = [call EXCEPT ![t].seen = seen,
                                       ![t].pc = IF done THEN "done" ELSE "load"]
               /\ ret' = IF done THEN [ret EXCEPT ![t] = Words(seen.ptr, seen.len)] ELSE ret
    /\ UNCHANGED <<bld, info, hist>>

NextThreads ==
    \E t \in Threads :
        \/ Enter(t)
        \/ CheckEmpty(t)
        \/ Fetch(t)
        \/ StoreWord(t)
        \/ LoadWord(t)

SpecThreads == InitThreads /\ [][NextThreads]_vars

\* -------------------------------------------- placeholder values: IsDummy
DummyVersion == "0.0.0"
DummyRevision == "abcdef"
DummyBranch == "dev"
DummyDate == "1997-08-29 13:37:00"

\* BuildInfo{Version: .., Revision: .., Branch: .., Date: ..}
BuildInfoV1(ver, rev, branch, date) ==
    [Version |-> ver, Revision |-> rev, Branch |-> branch, Date |-> date]

\* IsDummy looking at the ver only
IsDummyVersionOnly(r) == r.Version = DummyVersion

IsDummy(r) ==
    /\ r.Version = DummyVersion
    /\ r.Revision = DummyRevision
    /\ r.Branch = DummyBranch
    /\ r.Date = DummyDate

\* a value that is no placeholder, as ldflags set it
Injected == "v1"

RecordsV1 ==
    {BuildInfoV1(ver, rev, branch, date) :
        ver \in {"", DummyVersion, Injected},
        rev \in {"", DummyRevision, Injected},
        branch \in {"", DummyBranch, Injected},
        date \in {"", DummyDate, Injected}}

\* ok: the boolean returned
RetBool(ok) == [ok |-> ok]

InitIsDummy ==
    /\ info = NilInfo
    /\ hist = NoHist
    /\ bld \in RecordsV1
    /\ call = Call("literal", bld, "", "", <<>>, FALSE, ZeroValue)
    /\ ret = RetBool(FALSE)

\* bld.<field> = value
SetField ==
    \E field \in DOMAIN bld, value \in {"", Injected} :
        /\ call' = Call("set", bld, field, value, <<>>, FALSE, ZeroValue)
        /\ bld' = [bld EXCEPT ![field] = value]
        /\ UNCHANGED <<ret, info, hist>>

\* IsDummy(bld)
CallIsDummy ==
    /\ call' = Call("IsDummy", bld, "", "", <<>>, FALSE, ZeroValue)
    /\ ret' = RetBool(IsDummy(bld))
    /\ UNCHANGED <<bld, info, hist>>

NextIsDummy ==
    \/ SetField
    \/ CallIsDummy

SpecIsDummy == InitIsDummy /\ [][NextIsDummy]_vars

\* ---------------------------------------------- placeholder values: Dummy
DummyBranchHead == "HEAD"
DummyCommit == "abcdef"

\* BuildInfo{Version: .., Date: .., Branch: .., Commit: ..}
BuildInfoGit(ver, date, branch, commit) ==
    [Version |-> ver, Date |-> date, Branch |-> branch, Commit |-> commit]

\* Dummy forgetting the commit
DummyNoCommit(r) ==
    [r EXCEPT !.Version = IF @ = "" THEN DummyVersion ELSE @,
              !.Date = IF @ = "" THEN DummyDate ELSE @,
              !.Branch = IF @ = "" THEN DummyBranchHead ELSE @]

\* Dummy(&r): the record afterwards
Dummy(r) ==
    LET a == IF r.Version = "" THEN [r EXCEPT !.Version = DummyVersion] ELSE r
        b == IF a.Date = "" THEN [a EXCEPT !.Date = DummyDate] ELSE a
        c == IF b.Branch = "" THEN [b EXCEPT !.Branch = DummyBranchHead] ELSE b
    IN  IF c.Commit = "" THEN [c EXCEPT !.Commit = DummyCommit] ELSE c

RecordsGit ==
    {BuildInfoGit(ver, date, branch, commit) :
        ver \in {"", DummyVersion, Injected},
        date \in {"", DummyDate, Injected},
        branch \in {"", DummyBranchHead, Injected},
        commit \in {"", DummyCommit, Injected}}

InitDummy ==
    /\ info = NilInfo
    /\ hist = NoHist
    /\ bld \in RecordsGit
    /\ call = Call("literal", bld, "", "", <<>>, FALSE, ZeroValue)
    /\ ret = RetBool(FALSE)

\* Dummy(&bld)
CallDummy ==
    /\ call' = Call("Dummy", bld, "", "", <<>>, FALSE, ZeroValue)
    /\ bld' = Dummy(bld)
    /\ UNCHANGED <<ret, info, hist>>

NextDummy ==
    \/ SetField
    \/ CallDummy

SpecDummy == InitDummy /\ [][NextDummy]_vars

\* ------------------------------------------------- strings, strconv, semver
\* strings.Index(s, sub): the index from 0 of the first sub in s, or -1
Index(s, sub) ==
    IF \E i \in 1..(Len(s) + 1) : HasPrefixAt(s, i, sub)
    THEN (CHOOSE i \in 1..(Len(s) + 1) :
              HasPrefixAt(s, i, sub) /\ \A j \in 1..(i - 1) : ~HasPrefixAt(s, j, sub)) - 1
    ELSE -1

\* strings.Contains, bytes.Contains
Contains(s, sub) == Index(s, sub) >= 0

\* strings.Cut(s, sep): [before, after, found]
Cut(s, sep) ==
    LET i == Index(s, sep)
    IN  IF i >= 0
        THEN [before |-> SubSeq(s, 1, i), after |-> SubSeq(s, i + Len(sep) + 1, Len(s)),
              found |-> TRUE]
        ELSE [before |-> s, after |-> <<>>, found |-> FALSE]

UpperLetters ==
    <<"A", "B", "C", "D", "E", "F", "G", "H", "I", "J", "K", "L", "M",
      "N", "O", "P", "Q", "R", "S", "T", "U", "V", "W", "X", "Y", "Z">>
LowerLetters ==
    <<"a", "b", "c", "d", "e", "f", "g", "h", "i", "j", "k", "l", "m",
      "n", "o", "p", "q", "r", "s", "t", "u", "v", "w", "x", "y", "z">>

\* strings.ToLower
ToLower(s) ==
    [i \in 1..Len(s) |->
        IF \E n \in 1..26 : UpperLetters[n] = s[i]
        THEN LowerLetters[CHOOSE n \in 1..26 : UpperLetters[n] = s[i]]
        ELSE s[i]]

\* strconv.FormatUint(n, 10), fmt's %d
RECURSIVE FormatUint(_)
FormatUint(n) ==
    IF n < 10 THEN <<Digits[n + 1]>> ELSE FormatUint(n \div 10) \o <<Digits[(n % 10) + 1]>>

\* strconv.ParseInt(s, 10, 64) for the values that fit: [err, n]
ParseInt(s) ==
    LET neg == At(s, 1) = "-"
        i == IF At(s, 1) \in {"-", "+"} THEN 2 ELSE 1
        n == DigitRun(s, i)
    IN  IF n = 0 \/ i + n - 1 # Len(s) THEN [err |-> TRUE, n |-> 0]
        ELSE [err |-> FALSE, n |-> IF neg THEN 0 - Num(s, i, n) ELSE Num(s, i, n)]

\* a semver.Version
Semver(major, minor, patch, pre, metadata, original) ==
    [major |-> major, minor |-> minor, patch |-> patch, pre |-> pre,
     metadata |-> metadata, original |-> original]

\* semver.NewVersion(v): [err, v].  An optional "v", one to three numbers
\* separated by dots, "-" and a pre-release, "+" and metadata; numbers that
\* are left out are 0.
NewVersion(v) ==
    LET a == IF At(v, 1) = "v" THEN 2 ELSE 1
        n1 == DigitRun(v, a)
        b == a + n1
        n2 == IF At(v, b) = "." THEN DigitRun(v, b + 1) ELSE 0
        c == IF n2 > 0 THEN b + 1 + n2 ELSE b
        n3 == IF n2 > 0 /\ At(v, c) = "." THEN DigitRun(v, c + 1) ELSE 0
        d == IF n3 > 0 THEN c + 1 + n3 ELSE c
        rest == SubSeq(v, d, Len(v))
        plus == Cut(rest, <<"+">>)
        pre == IF At(rest, 1) = "-" THEN Tail(plus.before) ELSE <<>>
        bad == \/ n1 = 0
               \/ rest # <<>> /\ At(rest, 1) \notin {"-", "+"}
               \/ At(rest, 1) = "-" /\ pre = <<>>
               \/ plus.found /\ plus.after = <<>>
    IN  IF bad THEN [err |-> TRUE, v |-> Semver(0, 0, 0, <<>>, <<>>, <<>>)]
        ELSE [err |-> FALSE,
              v |-> Semver(Num(v, a, n1),
                           IF n2 > 0 THEN Num(v, b + 1, n2) ELSE 0,
                           IF n3 > 0 THEN Num(v, c + 1, n3) ELSE 0,
                           pre, plus.after, v)]

\* semver.Version.String
SemverString(v) ==
    FormatUint(v.major) \o <<".">> \o FormatUint(v.minor) \o <<".">> \o FormatUint(v.patch)
    \o (IF v.pre # <<>> THEN <<"-">> \o v.pre ELSE <<>>)
    \o (IF v.metadata # <<>> THEN <<"+">> \o v.metadata ELSE <<>>)

\* semver.Version.IncPatch, IncMinor, IncMajor
IncPatch(v) ==
    [v EXCEPT !.metadata = <<>>, !.pre = <<>>, !.patch = IF v.pre # <<>> THEN @ ELSE @ + 1]
IncMinor(v) == [v EXCEPT !.metadata = <<>>, !.pre = <<>>, !.patch = 0, !.minor = @ + 1]
IncMajor(v) ==
    [v EXCEPT !.metadata = <<>>, !.pre = <<>>, !.patch = 0, !.minor = 0, !.major = @ + 1]

\* version.Version and version.MajorMinor
VersionOf(v) ==
    FormatUint(v.major) \o <<".">> \o FormatUint(v.minor) \o <<".">> \o FormatUint(v.patch)
MajorMinor(v) == FormatUint(v.major) \o <<".">> \o FormatUint(v.minor)

\* time.Unix(ts, 0) read in UTC: the civil time ts seconds after 1970-01-01
Unix(ts) ==
    LET days == 719162 + (ts \div 86400)
        sec == ts % 86400
        y == CHOOSE yy \in ((days \div 366) + 1)..((days \div 365) + 1) :
                 DaysSinceEpoch(yy, 1, 1) <= days /\ days < DaysSinceEpoch(yy + 1, 1, 1)
        mo == CHOOSE m \in 1..12 :
                  /\ DaysSinceEpoch(y, m, 1) <= days
                  /\ days < DaysSinceEpoch(y, m, 1) + DaysIn(m, y)
    IN  Time(y, mo, days - DaysSinceEpoch(y, mo, 1) + 1,
             sec \div 3600, (sec \div 60) % 60, sec % 60, 0, 0)

\* ------------------------------------------------------ package internal: git
\* error values: nil, an *internal.ExitError around the *exec.ExitError of a
\* git that exited with a status (its text is what git wrote to stderr), any
\* other error of starting the command, and the errors made by run itself
NoError == [kind |-> "nil", msg |-> <<>>, code |-> 0, stderr |-> <<>>]
Error(kind, msg, code) == [kind |-> kind, msg |-> msg, code |-> code, stderr |-> <<>>]

\* ExitError.Error: stderr, or the text of the cause when stderr is empty
ExitError(stderr, code) ==
    [kind |-> "exit",
     msg |-> IF Len(stderr) # 0 THEN stderr
             ELSE <<"e", "x", "i", "t", " ", "s", "t", "a", "t", "u", "s", " ">> \o FormatUint(code),
     code |-> code, stderr |-> stderr]

\* what one git command answers: its standard output and its error
GitResult(out, err) == [out |-> out, err |-> err]

StderrNoNames == <<"f", "a", "t", "a", "l", ":", " ", "N", "o", " ", "n", "a", "m", "e", "s", " ", "f", "o", "u", "n", "d", ",", " ", "c", "a", "n", "n", "o", "t", " ", "d", "e", "s", "c", "r", "i", "b", "e", " ", "a", "n", "y", "t", "h", "i", "n", "g", ".", "\n">>
StderrCannotDescribe == <<"f", "a", "t", "a", "l", ":", " ", "c", "a", "n", "n", "o", "t", " ", "d", "e", "s", "c", "r", "i", "b", "e", " ", "'", "a", "b", "c", "1", "2", "3", "4", "'", "\n">>
StderrNotARepo == <<"f", "a", "t", "a", "l", ":", " ", "n", "o", "t", " ", "a", " ", "g", "i", "t", " ", "r", "e", "p", "o", "s", "i", "t", "o", "r", "y", "\n">>
StderrUnknownRevision == <<"f", "a", "t", "a", "l", ":", " ", "u", "n", "k", "n", "o", "w", "n", " ", "r", "e", "v", "i", "s", "i", "o", "n", "\n">>
ErrGitNotFound == Error("exec", <<"e", "x", "e", "c", ":", " ", "g", "i", "t", ":", " ", "e", "x", "e", "c", "u", "t", "a", "b", "l", "e", " ", "f", "i", "l", "e", " ", "n", "o", "t", " ", "f", "o", "u", "n", "d">>, 0)

\* DefaultTag
DefaultTag == <<"0", ".", "0", ".", "0">>

\* execGit: the answer of the git command, its output dropped on an error
execGit(result) ==
    IF result.err.kind # "nil" THEN GitResult(<<>>, result.err) ELSE result

\* bytes.IndexRune(b, '\n')
IndexNewline(b) == Index(b, <<"\n">>)

\* cutTag: [tag, remains, err]
cutTag(b) ==
    LET c == Cut(TrimSpace(b), <<"-">>)
    IN  [tag |-> c.before, remains |-> c.after, err |-> NoError]

\* LatestTag over the answer of "git tag --sort=-v:refname"
LatestTag(repo) ==
    LET r == execGit(repo.tags)
        tags == TrimLeft(r.out)
        i == IndexNewline(tags)
    IN  IF r.err.kind # "nil" THEN [tag |-> <<>>, remains |-> <<>>, err |-> r.err]
        ELSE cutTag(IF i > 0 THEN SubSeq(tags, 1, i) ELSE tags)

CurrentTagNoNamesOnly(repo) ==
    LET r == execGit(repo.describe)
    IN  IF r.err.kind # "nil"
        THEN IF /\ r.err.kind = "exit"
                /\ Contains(r.err.stderr, <<"N", "o", " ", "n", "a", "m", "e", "s", " ", "f", "o", "u", "n", "d">>)
             THEN [tag |-> DefaultTag, remains |-> <<>>, err |-> NoError]
             ELSE [tag |-> <<>>, remains |-> <<>>, err |-> r.err]
        ELSE cutTag(r.out)

\* CurrentTag over the answer of "git describe --tags --abbrev=0"
CurrentTag(repo) ==
    LET r == execGit(repo.describe)
    IN  IF r.err.kind # "nil"
        THEN IF /\ r.err.kind = "exit"
                /\ \/ Contains(r.err.stderr, <<"N", "o", " ", "n", "a", "m", "e", "s", " ", "f", "o", "u", "n", "d">>)
                   \/ Contains(r.err.stderr, <<"c", "a", "n", "n", "o", "t", " ", "d", "e", "s", "c", "r", "i", "b", "e">>)
             THEN [tag |-> DefaultTag, remains |-> <<>>, err |-> NoError]
             ELSE [tag |-> <<>>, remains |-> <<>>, err |-> r.err]
        ELSE cutTag(r.out)

\* a repository as git answers for it: "git describe --tags --abbrev=0",
\* "git tag --sort=-v:refname", and "git log -1 --pretty=%h,%ct <tag>" for the
\* names in refs (nolog is the answer for every other name)
Repo(describe, tags, refs, log, nolog) ==
    [describe |-> describe, tags |-> tags, refs |-> refs, log |-> log, nolog |-> nolog]

Log(repo, tag) == IF tag \in repo.refs THEN repo.log ELSE repo.nolog

\* TagDetails: [revision, time, err]; s[1] of a line without a comma is an
\* index out of range
TagDetails(repo, tag) ==
    LET r == execGit(Log(repo, tag))
        s == Cut(TrimSpace(r.out), <<",">>)
        ts == ParseInt(s.after)
    IN  IF r.err.kind # "nil" THEN [revision |-> <<>>, time |-> ZeroTime, err |-> r.err]
        ELSE IF ~s.found
        THEN [revision |-> <<>>, time |-> ZeroTime,
              err |-> Error("panic", <<"i", "n", "d", "e", "x", " ", "o", "u", "t", " ", "o", "f", " ", "r", "a", "n", "g", "e">>, 2)]
        ELSE [revision |-> s.before,
              time |-> Unix(ts.n),
              err |-> IF ts.err THEN Error("strconv", <<"i", "n", "v", "a", "l", "i", "d", " ", "s", "y", "n", "t", "a", "x">>, 0) ELSE NoError]

\* ------------------------------------------------------- cmd/buildinfo: run
\* the state of one run: the version and the lazily fetched details
State(v, rev, t) == [version |-> v, revision |-> rev, time |-> t]

detailsNoCache(v, repo) ==
    CHOOSE r \in {[vars |-> State(v.version, d.revision, d.time),
                   err |-> d.err, fetched |-> 1]
                  : d \in {TagDetails(repo, v.version.original)}} : TRUE

\* state.details: [vars, err, fetched], fetched counting the calls of TagDetails
details(v, repo) ==
    IF v.revision # <<>> /\ ~IsZero(v.time)
    THEN [vars |-> v, err |-> NoError, fetched |-> 0]
    ELSE CHOOSE r \in {[vars |-> State(v.version, d.revision, d.time),
                        err |-> d.err, fetched |-> 1]
                       : d \in {TagDetails(repo, v.version.original)}} : TRUE

\* the accessors a template can call on a state value: the value methods of
\* the embedded version that return a string or a number
TemplateFields ==
    {<<"O", "r", "i", "g", "i", "n", "a", "l">>, <<"F", "u", "l", "l", "V", "e", "r", "s", "i", "o", "n">>, <<"V", "e", "r", "s", "i", "o", "n">>, <<"M", "a", "j", "o", "r", "M", "i", "n", "o", "r">>,
     <<"M", "a", "j", "o", "r">>, <<"M", "i", "n", "o", "r">>, <<"P", "a", "t", "c", "h">>, <<"P", "r", "e", "r", "e", "l", "e", "a", "s", "e">>, <<"M", "e", "t", "a", "d", "a", "t", "a">>}

TemplateValue(name, v) ==
    IF name = <<"O", "r", "i", "g", "i", "n", "a", "l">> THEN v.original
    ELSE IF name = <<"F", "u", "l", "l", "V", "e", "r", "s", "i", "o", "n">> THEN SemverString(v)
    ELSE IF name = <<"V", "e", "r", "s", "i", "o", "n">> THEN VersionOf(v)
    ELSE IF name = <<"M", "a", "j", "o", "r", "M", "i", "n", "o", "r">> THEN MajorMinor(v)
    ELSE IF name = <<"M", "a", "j", "o", "r">> THEN FormatUint(v.major)
    ELSE IF name = <<"M", "i", "n", "o", "r">> THEN FormatUint(v.minor)
    ELSE IF name = <<"P", "a", "t", "c", "h">> THEN FormatUint(v.patch)
    ELSE IF name = <<"P", "r", "e", "r", "e", "l", "e", "a", "s", "e">> THEN v.pre
    ELSE v.metadata

\* template.Parse for text and {{.Name}} actions: [err, nodes]
RECURSIVE ParseTemplate(_)
ParseTemplate(s) ==
    LET i == Index(s, <<"{", "{">>)
        rest == SubSeq(s, i + 3, Len(s))
        j == Index(rest, <<"}", "}">>)
        body == TrimSpace(SubSeq(rest, 1, j))
        text == IF i > 0 THEN <<[text |-> SubSeq(s, 1, i), field |-> <<>>]>> ELSE <<>>
    IN  IF i < 0
        THEN [err |-> FALSE,
              nodes |-> IF s = <<>> THEN <<>> ELSE <<[text |-> s, field |-> <<>>]>>]
        ELSE IF j < 0 \/ Len(body) < 2 \/ body[1] # "." \/ Contains(body, <<" ">>)
        THEN [err |-> TRUE, nodes |-> <<>>]
        ELSE CHOOSE r \in {[err |-> p.err,
                            nodes |-> text \o <<[text |-> <<>>, field |-> Tail(body)]>> \o p.nodes]
                           : p \in {ParseTemplate(SubSeq(rest, j + 3, Len(rest)))}} : TRUE

\* Template.Execute over a state value: [out, err].  What was written before
\* a failing action stays written; the methods with a pointer receiver
\* (Revision, Time) are not in the method set of the value.
RECURSIVE ExecuteTemplate(_, _, _)
ExecuteTemplate(nodes, i, v) ==
    IF i > Len(nodes) THEN [out |-> <<>>, err |-> FALSE]
    ELSE IF nodes[i].field = <<>>
    THEN CHOOSE r \in {[out |-> nodes[i].text \o e.out, err |-> e.err]
                       : e \in {ExecuteTemplate(nodes, i + 1, v)}} : TRUE
    ELSE IF nodes[i].field \notin TemplateFields
    THEN [out |-> <<>>, err |-> TRUE]
    ELSE CHOOSE r \in {[out |-> TemplateValue(nodes[i].field, v) \o e.out, err |-> e.err]
                       : e \in {ExecuteTemplate(nodes, i + 1, v)}} : TRUE

ErrInvalidVersion == Error("semver", <<"I", "n", "v", "a", "l", "i", "d", " ", "S", "e", "m", "a", "n", "t", "i", "c", " ", "V", "e", "r", "s", "i", "o", "n">>, 0)
ErrTemplateParse == Error("template", <<"t", "e", "m", "p", "l", "a", "t", "e", ":", " ", "u", "n", "e", "x", "p", "e", "c", "t", "e", "d", " ", "o", "r", " ", "u", "n", "c", "l", "o", "s", "e", "d", " ", "a", "c", "t", "i", "o", "n">>, 0)
ErrTemplateExec == Error("template", <<"t", "e", "m", "p", "l", "a", "t", "e", ":", " ", "c", "a", "n", "'", "t", " ", "e", "v", "a", "l", "u", "a", "t", "e", " ", "f", "i", "e", "l", "d">>, 0)

ErrInvalidArgumentBare(arg) ==
    Error("invalid", <<"I", "n", "v", "a", "l", "i", "d", " ", "a", "r", "g", "u", "m", "e", "n", "t">>, 0)

\* errors.Newf("Invalid argument `%s`\n", arg)
ErrInvalidArgument(arg) ==
    Error("invalid", <<"I", "n", "v", "a", "l", "i", "d", " ", "a", "r", "g", "u", "m", "e", "n", "t", " ", Grave>> \o arg \o <<Grave, "\n">>, 0)

separatorNone(sb) == <<>>

\* what is written between two results: a space unless nothing was written yet
separator(sb) == IF Len(sb) # 0 THEN <<" ">> ELSE <<>>

\* one round of the loop of run over the arguments: st is [vars, sb, err, fetched]
runArg(arg, st, repo) ==
    LET lower == ToLower(arg)
        sep == separator(st.sb)
        v == st.vars.version
        Write(str) == [st EXCEPT !.sb = @ \o sep \o str]
    IN  IF arg = <<>> THEN st
        ELSE IF lower \in {<<"r", "e", "v", "i", "s", "i", "o", "n">>, <<"r", "e", "v">>, <<"t", "i", "m", "e">>}
        THEN CHOOSE r \in
                 {[vars |-> d.vars,
                   sb |-> IF d.err.kind # "nil" THEN st.sb
                          ELSE st.sb \o sep \o (IF lower = <<"t", "i", "m", "e">>
                                                THEN FormatRFC3339(d.vars.time)
                                                ELSE d.vars.revision),
                   err |-> d.err,
                   fetched |-> st.fetched + d.fetched]
                  : d \in {details(st.vars, repo)}} : TRUE
        ELSE IF lower = <<"o", "r", "i", "g", "i", "n", "a", "l">> THEN Write(v.original)
        ELSE IF lower = <<"f", "u", "l", "l">> THEN Write(SemverString(v))
        ELSE IF lower \in {<<"v", "e", "r", "s", "i", "o", "n">>, <<"m", "a", "j", "o", "r", ".", "m", "i", "n", "o", "r", ".", "p", "a", "t", "c", "h">>} THEN Write(VersionOf(v))
        ELSE IF lower = <<"m", "a", "j", "o", "r", ".", "m", "i", "n", "o", "r">> THEN Write(MajorMinor(v))
        ELSE IF lower = <<"m", "a", "j", "o", "r">> THEN Write(FormatUint(v.major))
        ELSE IF lower = <<"m", "i", "n", "o", "r">> THEN Write(FormatUint(v.minor))
        ELSE IF lower = <<"p", "a", "t", "c", "h">> THEN Write(FormatUint(v.patch))
        ELSE IF lower = <<"+", "p", "a", "t", "c", "h">> THEN Write(VersionOf(IncPatch(v)))
        ELSE IF lower = <<"+", "m", "i", "n", "o", "r">> THEN Write(VersionOf(IncMinor(v)))
        ELSE IF lower = <<"+", "m", "a", "j", "o", "r">> THEN Write(VersionOf(IncMajor(v)))
        ELSE [st EXCEPT !.err = ErrInvalidArgument(arg)]

\* the loop of run from argument i on; an error returns at once
RECURSIVE runLoop(_, _, _, _)
runLoop(args, i, st, repo) ==
    IF i > Len(args) \/ st.err.kind # "nil" THEN st
    ELSE CHOOSE r \in {runLoop(args, i + 1, s2, repo)
                       : s2 \in {runArg(args[i], st, repo)}} : TRUE

\* the result of run: what it wrote to os.Stdout, its error, the number of
\* fetches of the tag details, and the state it ended with
RunResult(stdout, err, fetched, v) ==
    [stdout |-> stdout, err |-> err, fetched |-> fetched, vars |-> v]

NoState == State(Semver(0, 0, 0, <<>>, <<>>, <<>>), <<>>, ZeroTime)

isTemplate(args) ==
    Len(args) = 1 /\ Contains(args[1], <<"{", "{">>) /\ Contains(args[1], <<"}", "}">>)

\* run with the template rendered to rendered.out: the loop over the arguments
\* follows the template branch, there is no return between them
runSelectors(args, v, rendered, repo) ==
    CHOOSE r \in {RunResult(IF st.err.kind # "nil" THEN rendered
                            ELSE rendered \o st.sb,
                            st.err, st.fetched, st.vars)
                  : st \in {runLoop(args, 1,
                                    [vars |-> v, sb |-> <<>>, err |-> NoError,
                                     fetched |-> 0], repo)}} : TRUE

runVersion(args, tag, repo) ==
    LET ver == NewVersion(tag)
        fresh == State(ver.v, <<>>, ZeroTime)
        tmpl == ParseTemplate(args[1])
        exec == ExecuteTemplate(tmpl.nodes, 1, ver.v)
    IN  IF ver.err THEN RunResult(<<>>, ErrInvalidVersion, 0, NoState)
        ELSE IF isTemplate(args)
        THEN IF tmpl.err THEN RunResult(<<>>, ErrTemplateParse, 0, fresh)
             ELSE IF exec.err THEN RunResult(exec.out, ErrTemplateExec, 0, fresh)
             ELSE runSelectors(args, fresh, exec.out, repo)
        ELSE runSelectors(args, fresh, <<>>, repo)

runTag(args, t, repo) ==
    IF t.err.kind # "nil" THEN RunResult(<<>>, t.err, 0, NoState)
    ELSE IF Len(args) = 0 THEN RunResult(t.tag, NoError, 0, NoState)
    ELSE runVersion(args, t.tag, repo)

\* run, with the answer of the tag lookup it worked on
run(repo, args, latest) ==
    CHOOSE res \in {[lookup |-> t, result |-> runTag(args, t, repo)]
                    : t \in {IF latest THEN LatestTag(repo) ELSE CurrentTag(repo)}} : TRUE

\* main: a failed run is reported on os.Stdout and ends the process with the
\* exit code of the error, or 1
main(repo, args, latest) ==
    CHOOSE m \in {[run |-> r.result, lookup |-> r.lookup,
                   out |-> IF r.result.err.kind = "nil" THEN r.result.stdout
                           ELSE r.result.stdout
                                \o <<"f", "a", "t", "a", "l", " ", "e", "r", "r", "o", "r", ":", " ">>
                                \o r.result.err.msg,
                   exit |-> IF r.result.err.kind = "nil" THEN 0
                            ELSE IF r.result.err.code # 0 THEN r.result.err.code ELSE 1]
                  : r \in {run(repo, args, latest)}} : TRUE

\* ------------------------------------------- SpecRun: the command line tool
MaxArgs == 3

GitOk(out) == GitResult(out, NoError)
GitExit(stderr) == GitResult(<<>>, ExitError(stderr, 128))

DetailsLine == <<"a", "b", "c", "1", "2", "3", "4", ",", "1", "5", "9", "2", "3", "3", "7", "1", "8", "0", "\n">>
RevAbc == <<"a", "b", "c", "1", "2", "3", "4">>
TimeAbc == Time(2020, 6, 16, 19, 53, 0, 0, 0)

\* HEAD is at tag v1.2.3, the highest tag is v2.0.0
RepoTagged ==
    Repo(GitOk(<<"v", "1", ".", "2", ".", "3", "\n">>), GitOk(<<"v", "2", ".", "0", ".", "0", "\n", "v", "1", ".", "2", ".", "3", "\n">>),
         {<<"v", "1", ".", "2", ".", "3">>, <<"v", "2", ".", "0", ".", "0">>}, GitOk(DetailsLine), GitExit(StderrUnknownRevision))
\* the only tag has a hyphen in its name
RepoHyphen ==
    Repo(GitOk(<<"v", "1", ".", "2", ".", "3", "-", "r", "c", "1", "\n">>), GitOk(<<"v", "1", ".", "2", ".", "3", "-", "r", "c", "1", "\n">>),
         {<<"v", "1", ".", "2", ".", "3", "-", "r", "c", "1">>}, GitOk(DetailsLine), GitExit(StderrUnknownRevision))
\* the only tag is not a semantic version
RepoPlain ==
    Repo(GitOk(<<"r", "e", "l", "e", "a", "s", "e", "\n">>), GitOk(<<"r", "e", "l", "e", "a", "s", "e", "\n">>),
         {<<"r", "e", "l", "e", "a", "s", "e">>}, GitOk(DetailsLine), GitExit(StderrUnknownRevision))
\* commits and no tags
RepoNoTags ==
    Repo(GitExit(StderrNoNames), GitOk(<<>>), {}, GitOk(DetailsLine),
         GitExit(StderrUnknownRevision))
\* tags, none of them reachable from HEAD
RepoCannotDescribe ==
    Repo(GitExit(StderrCannotDescribe), GitOk(<<"v", "2", ".", "0", ".", "0", "\n">>), {<<"v", "2", ".", "0", ".", "0">>},
         GitOk(DetailsLine), GitExit(StderrUnknownRevision))
\* the working directory is not a repository
NotARepo ==
    Repo(GitExit(StderrNotARepo), GitExit(StderrNotARepo), {}, GitExit(StderrNotARepo),
         GitExit(StderrNotARepo))
\* git exits with a status and writes nothing
RepoSilent ==
    Repo(GitExit(<<>>), GitExit(<<>>), {}, GitExit(<<>>), GitExit(<<>>))
\* git cannot be started
NoGit ==
    Repo(GitResult(<<>>, ErrGitNotFound), GitResult(<<>>, ErrGitNotFound), {},
         GitResult(<<>>, ErrGitNotFound), GitResult(<<>>, ErrGitNotFound))

Repos ==
    {RepoTagged, RepoHyphen, RepoPlain, RepoNoTags, RepoCannotDescribe, NotARepo,
     RepoSilent, NoGit}

ArgMajor == <<"m", "a", "j", "o", "r">>
ArgMinor == <<"m", "i", "n", "o", "r">>
ArgPatch == <<"p", "a", "t", "c", "h">>
ArgRev == <<"r", "e", "v">>
ArgTime == <<"t", "i", "m", "e">>
ArgBogus == <<"b", "o", "g", "u", "s">>
TmplMajorMinor == <<"v", "{", "{", ".", "M", "a", "j", "o", "r", "}", "}", ".", "{", "{", " ", ".", "M", "i", "n", "o", "r", " ", "}", "}">>
TmplRevision == <<"r", "e", "v", " ", "{", "{", ".", "R", "e", "v", "i", "s", "i", "o", "n", "}", "}">>
TmplUnclosed == <<"}", "}", "{", "{", ".", "M", "a", "j", "o", "r">>

\* the selectors of run, in lower case
Selectors ==
    {<<"r", "e", "v", "i", "s", "i", "o", "n">>, ArgRev, ArgTime, <<"o", "r", "i", "g", "i", "n", "a", "l">>, <<"f", "u", "l", "l">>, <<"v", "e", "r", "s", "i", "o", "n">>,
     <<"m", "a", "j", "o", "r", ".", "m", "i", "n", "o", "r", ".", "p", "a", "t", "c", "h">>, <<"m", "a", "j", "o", "r", ".", "m", "i", "n", "o", "r">>, ArgMajor, ArgMinor, ArgPatch,
     <<"+", "p", "a", "t", "c", "h">>, <<"+", "m", "i", "n", "o", "r">>, <<"+", "m", "a", "j", "o", "r">>}

CoreArgs == {ArgMajor, ArgMinor, ArgPatch, ArgRev, ArgTime, ArgBogus, <<>>}
SingleArgs ==
    Selectors \cup {TmplMajorMinor, TmplRevision, TmplUnclosed, <<"M", "a", "j", "o", "r">>, <<"{", "{", "b", "o", "g", "u", "s">>}

\* the argument lists: every list of up to MaxArgs core arguments, and each
\* other argument alone or after a core argument
ArgLists ==
    UNION {[1..n -> CoreArgs] : n \in 0..MaxArgs}
    \cup {<<a>> : a \in SingleArgs}
    \cup {<<c, a>> : c \in {ArgMajor, ArgBogus}, a \in SingleArgs}

RunCall(args, latest) == [op |-> "run", args |-> args, latest |-> latest]
RunRet(m) ==
    [stdout |-> m.run.stdout, err |-> m.run.err, out |-> m.out, exit |-> m.exit,
     lookup |-> m.lookup]

InitRun ==
    /\ info \in Repos
    /\ call = [op |-> "none", args |-> <<>>, latest |-> FALSE]
    /\ ret = [stdout |-> <<>>, err |-> NoError, out |-> <<>>, exit |-> 0,
              lookup |-> [tag |-> <<>>, remains |-> <<>>, err |-> NoError]]
    /\ bld = NoState
    /\ hist = NoHist

\* buildinfo [-l] args...: the one run of the tool in a process
CallRun ==
    /\ call.op = "none"
    /\ \E args \in ArgLists, latest \in BOOLEAN :
        \E m \in {main(info, args, latest)} :
            /\ call' = RunCall(args, latest)
            /\ ret' = RunRet(m)
            /\ bld' = m.run.vars
            /\ hist' = [fetched |-> m.run.fetched, stored |-> 0]
            /\ UNCHANGED info

NextRun == CallRun

SpecRun == InitRun /\ [][NextRun]_vars

\* --------------------------------------------- SpecGen: package gen, Generator
MaxReads == 4

\* the version of Generator.DefaultVersion as New sets it
DefaultVersion == "0.0.0"

\* Vars[VersionVar] of a new Generator: the key is not in the map
NilVar == "<nil>"

\* a Generator: Vars[VersionVar] and DefaultVersion (the other entries of
\* Vars are set by New and never change)
Generator(ver, def) == [Version |-> ver, DefaultVersion |-> def]

\* what the ReaderFunc returns on one call: a version, or an error
ReaderResult(ver, err) == [ver |-> ver, err |-> err]
ReaderResults ==
    {ReaderResult("", FALSE), ReaderResult("0.0.0", FALSE), ReaderResult("v1.2.3", FALSE),
     ReaderResult("v1.3.0", FALSE), ReaderResult("", TRUE)}

\* Generator.ReadContext with the answer of the reader: [g, err]
ReadContext(g, res) ==
    IF res.err THEN [g |-> g, err |-> TRUE]
    ELSE IF res.ver = "" THEN [g |-> [g EXCEPT !.Version = g.DefaultVersion], err |-> FALSE]
    ELSE [g |-> [g EXCEPT !.Version = res.ver], err |-> FALSE]

\* tmpl.Execute(w, g.Vars) for the template "version {{.String}}"
ExecuteVars(g) ==
    "version " \o (IF g.Version = NilVar THEN "<no value>" ELSE g.Version)

\* Generator.ExecuteContext, res being what the reader answers if it is
\* called: [g, err, out, reads], reads counting the calls of the reader
ExecuteContext(g, res) ==
    IF g.Version = NilVar \/ g.Version = "" \/ g.Version = g.DefaultVersion
    THEN LET r == ReadContext(g, res)
         IN  IF r.err THEN [g |-> r.g, err |-> TRUE, out |-> "", reads |-> 1]
             ELSE [g |-> r.g, err |-> FALSE, out |-> ExecuteVars(r.g), reads |-> 1]
    ELSE [g |-> g, err |-> FALSE, out |-> ExecuteVars(g), reads |-> 0]

\* op: the method called; recv: the Generator before the call; reads: the
\* calls of the reader before the call; stored: a ReadContext has stored a
\* version before the call
GenCall(op, recv, reads, stored) ==
    [op |-> op, recv |-> recv, reads |-> reads, stored |-> stored]
GenRet(err, out) == [err |-> err, out |-> out]

\* New(reader, 0): hist.fetched counts the calls of the reader, hist.stored
\* the versions stored by ReadContext; info is the last answer of the reader
InitGen ==
    /\ bld = Generator(NilVar, DefaultVersion)
    /\ info = ReaderResult("", FALSE)
    /\ call = GenCall("New", bld, 0, 0)
    /\ ret = GenRet(FALSE, "")
    /\ hist = NoHist

\* g.ReadContext(ctx)
CallReadContext ==
    /\ hist.fetched < MaxReads
    /\ \E res \in ReaderResults :
        \E r \in {ReadContext(bld, res)} :
            /\ call' = GenCall("ReadContext", bld, hist.fetched, hist.stored)
            /\ info' = res
            /\ bld' = r.g
            /\ ret' = GenRet(r.err, "")
            /\ hist' = [fetched |-> hist.fetched + 1,
                        stored |-> IF r.err THEN hist.stored ELSE 1]

\* g.ExecuteContext(ctx, tmpl, w)
CallExecuteContext ==
    \E res \in ReaderResults :
        \E r \in {ExecuteContext(bld, res)} :
            /\ hist.fetched + r.reads <= MaxReads
            /\ call' = GenCall("ExecuteContext", bld, hist.fetched, hist.stored)
            /\ info' = IF r.reads = 1 THEN res ELSE info
            /\ bld' = r.g
            /\ ret' = GenRet(r.err, r.out)
            /\ hist' = [fetched |-> hist.fetched + r.reads,
                        stored |-> IF r.reads = 1 /\ ~r.err THEN 1 ELSE hist.stored]

NextGen ==
    \/ CallReadContext
    \/ CallExecuteContext

SpecGen == InitGen /\ [][NextGen]_vars

\* ------------------------------ SpecStringV1: String of the four string fields
\* String without the return for an empty revision and an empty date
StringV1Parens(r) ==
    r.Version \o (IF r.Branch # "" THEN " " \o r.Branch ELSE "") \o " ("
    \o (IF r.Revision # "" THEN "rev " \o r.Revision ELSE "")
    \o (IF r.Date # ""
        THEN (IF r.Revision # "" THEN ", " ELSE "") \o "date " \o r.Date
        ELSE "")
    \o ")"

\* BuildInfo.String of the record with the fields Version, Revision, Branch, Date
StringV1(r) ==
    LET branch == IF r.Branch # "" THEN " " \o r.Branch ELSE r.Branch
        rev == IF r.Revision # "" THEN "rev " \o r.Revision ELSE ""
        buf == IF r.Date # ""
               THEN rev \o (IF rev # "" THEN ", " ELSE "") \o "date " \o r.Date
               ELSE rev
    IN  IF r.Revision = "" /\ r.Date = "" THEN r.Version \o branch
        ELSE r.Version \o branch \o " (" \o buf \o ")"

InitStringV1 ==
    /\ info = NilInfo
    /\ hist = NoHist
    /\ bld \in RecordsV1
    /\ call = Call("literal", bld, "", "", <<>>, FALSE, ZeroValue)
    /\ ret = [str |-> ""]

\* bld.String()
CallStringV1 ==
    /\ call' = Call("String", bld, "", "", <<>>, FALSE, ZeroValue)
    /\ ret' = [str |-> StringV1(bld)]
    /\ UNCHANGED <<bld, info, hist>>

NextStringV1 ==
    \/ SetField
    \/ CallStringV1

SpecStringV1 == InitStringV1 /\ [][NextStringV1]_vars

\* ------------------------------------------------ vocabulary of the claims
\* the keys the code reserves
CodeReserved == {keyVersion, keyGoversion, keyRevision, keyTime}

\* the keys the specification calls reserved
SpecReserved == CodeReserved \cup {kDate, kBranch}

\* the map extra has none of the keys K
NoneOf(K, extra) == DOMAIN extra \cap K = {}

\* the version a record shows: its Version, or the sentinel when that is empty
Shown(r) == IF r.Version = <<>> THEN <<"0", ".", "0", ".", "0">> ELSE r.Version

\* the keys of the members of a scanned object, in the order of the text
KeysOf(mem) == [n \in 1..Len(mem) |-> mem[n].key]

\* the values of the members of a scanned object, in the order of the text
ValuesOf(mem) == [n \in 1..Len(mem) |-> mem[n].str]

\* the sequence keys holds every element of the set S once and nothing else
Enumerates(keys, S) ==
    /\ Len(keys) = Cardinality(S)
    /\ {keys[n] : n \in 1..Len(keys)} = S

\* a string literal as a standard JSON encoder writes it (encoding/json
\* with its default HTML escaping)
RECURSIVE StdQuoted(_)
StdQuoted(s) ==
    IF s = <<>> THEN <<>>
    ELSE LET c == Head(s)
             e == IF c = Q THEN <<BSL, Q>>
                  ELSE IF c = BSL THEN <<BSL, BSL>>
                  ELSE IF c = "\n" THEN <<BSL, "n">>
                  ELSE IF c = "\r" THEN <<BSL, "r">>
                  ELSE IF c = "\t" THEN <<BSL, "t">>
                  ELSE IF c = "\f" THEN <<BSL, "u", "0", "0", "0", "c">>
                  ELSE IF c = Backspace THEN <<BSL, "u", "0", "0", "0", "8">>
                  ELSE IF c = "<" THEN <<BSL, "u", "0", "0", "3", "c">>
                  ELSE IF c = ">" THEN <<BSL, "u", "0", "0", "3", "e">>
                  ELSE IF c = "&" THEN <<BSL, "u", "0", "0", "2", "6">>
                  ELSE <<c>>
         IN  e \o StdQuoted(Tail(s))

StdMember(k, v) == <<Q>> \o StdQuoted(k) \o <<Q, ":", Q>> \o StdQuoted(v) \o <<Q>>

RECURSIVE StdExtra(_, _)
StdExtra(extra, order) ==
    IF order = <<>> THEN <<>>
    ELSE <<",">> \o StdMember(Head(order), extra[Head(order)]) \o StdExtra(extra, Tail(order))

\* the object a standard JSON encoder writes for the fields of r, Extra in
\* the order given
StdEncoded(r, order) ==
    <<"{">> \o StdMember(keyVersion, Shown(r))
    \o (IF r.Revision # <<>> THEN <<",">> \o StdMember(keyRevision, r.Revision) ELSE <<>>)
    \o (IF ~IsZero(r.Time)
        THEN <<",">> \o StdMember(keyTime, FormatRFC3339(r.Time))
        ELSE <<>>)
    \o <<",">> \o StdMember(keyGoversion, GoVersionOf(r))
    \o StdExtra(r.Extra, order)
    \o <<"}">>

\* ------------------------------------------------------------------- claims

\* C1: decoding the output of MarshalJSON into a new record gives a record
\* equal to the marshalled one in Version, Revision, Time and Extra, for
\* every record whose Extra holds no reserved key.
C1_RoundTrip ==
    (call.op = "UnmarshalJSON" /\ call.json /\ NoneOf(SpecReserved, call.src.Extra))
    => /\ ~ret.err
       /\ bld.Version = call.src.Version
       /\ bld.Revision = call.src.Revision
       /\ bld.Time = call.src.Time
       /\ bld.Extra = call.src.Extra

\* C2 as the specification states it: WithExtra and UnmarshalJSON, called on
\* a record whose Extra has none of the keys version, revision, time, date,
\* goversion and branch, leave a record whose Extra has none of them, and
\* WithExtra with one of these keys is rejected.
C2_SpecReservedKept ==
    (call.op \in {"WithExtra", "UnmarshalJSON"} /\ NoneOf(SpecReserved, call.recv.Extra))
    => /\ NoneOf(SpecReserved, bld.Extra)
       /\ (call.op = "WithExtra" /\ call.key \in SpecReserved) => ret.panicked

\* C2, amended: WithExtra and UnmarshalJSON, called on a record whose Extra
\* has none of the keys version, revision, time and goversion, leave a record
\* whose Extra has none of them, and WithExtra with one of these four keys
\* is rejected and changes nothing.
C2_CodeReservedKept ==
    (call.op \in {"WithExtra", "UnmarshalJSON"} /\ NoneOf(CodeReserved, call.recv.Extra))
    => /\ NoneOf(CodeReserved, bld.Extra)
       /\ (call.op = "WithExtra" /\ call.key \in CodeReserved)
          => (ret.panicked /\ bld = call.recv)

\* WithExtra was refused a reserved key on a record without reserved keys
C2_Witness ==
    /\ call.op = "WithExtra"
    /\ call.key = keyTime
    /\ ret.panicked
    /\ NoneOf(CodeReserved, bld.Extra)
    /\ kDate \in DOMAIN bld.Extra

\* C3: WithExtra(key, value) panics for a reserved key and leaves Extra as it
\* was; for any other key it does not panic, returns its receiver, and the
\* key is in Extra and in the output of Map() with the value given.
C3_WithExtra ==
    call.op = "WithExtra"
    => IF call.key \in CodeReserved
       THEN ret.panicked /\ bld.Extra = call.recv.Extra
       ELSE /\ ~ret.panicked
            /\ ret.self
            /\ call.key \in DOMAIN bld.Extra
            /\ bld.Extra[call.key] = call.value
            /\ call.key \in DOMAIN Map(bld)
            /\ Map(bld)[call.key] = call.value

\* WithExtra added a key the record did not have
C3_Witness ==
    /\ call.op = "WithExtra"
    /\ call.key = kDate
    /\ ~ret.panicked
    /\ kDate \notin DOMAIN call.recv.Extra
    /\ kDate \in DOMAIN bld.Extra

\* C4 as the specification states it: with an empty Revision and a zero
\* Time, String() returns exactly the Version field.
C4_StringIsVersionField ==
    (call.op = "String" /\ call.recv.Revision = <<>> /\ IsZero(call.recv.Time))
    => ret.str = call.recv.Version

\* C4, amended: with an empty Revision and a zero Time, String() returns
\* exactly the Version field when it is not empty, and EmptyVersion when it
\* is.
C4_StringIsShownVersion ==
    (call.op = "String" /\ call.recv.Revision = <<>> /\ IsZero(call.recv.Time))
    => ret.str = Shown(call.recv)

\* String() of a record that has a version and nothing else
C4_Witness ==
    /\ call.op = "String"
    /\ call.recv.Revision = <<>>
    /\ IsZero(call.recv.Time)
    /\ call.recv.Version = V1
    /\ ret.str = V1

C6_Map ==
    call.op = "Map"
    => LET r == call.recv
           m == ret.map
       IN  /\ keyVersion \in DOMAIN m /\ m[keyVersion] = Shown(r)
           /\ keyGoversion \in DOMAIN m /\ m[keyGoversion] = bld.goVersion
           /\ keyRevision \in DOMAIN m <=> r.Revision # <<>>
           /\ keyRevision \in DOMAIN m => m[keyRevision] = r.Revision
           /\ keyTime \in DOMAIN m <=> ~IsZero(r.Time)
           /\ keyTime \in DOMAIN m => m[keyTime] = FormatRFC3339(r.Time)
           /\ \A k \in DOMAIN r.Extra \ CodeReserved : k \in DOMAIN m /\ m[k] = r.Extra[k]
           /\ DOMAIN m \subseteq CodeReserved \cup DOMAIN r.Extra

\* Map() of a record with a zero Time whose Extra has an entry and a time key
C6_Witness ==
    /\ call.op = "Map"
    /\ IsZero(call.recv.Time)
    /\ keyTime \in DOMAIN call.recv.Extra
    /\ kFoo \in DOMAIN call.recv.Extra
    /\ kFoo \in DOMAIN ret.map

\* C7: MarshalJSON writes one object whose keys are, in this order, version,
\* revision when Revision is not empty, time when Time is not zero (as RFC
\* 3339), goversion, then the keys of Extra; no key occurs twice.
C7_KeyOrder ==
    call.op = "MarshalJSON"
    => LET r == call.recv
           s == Scan(ret.str)
           first == <<keyVersion>>
                    \o (IF r.Revision # <<>> THEN <<keyRevision>> ELSE <<>>)
                    \o (IF ~IsZero(r.Time) THEN <<keyTime>> ELSE <<>>)
                    \o <<keyGoversion>>
           keys == KeysOf(s.mem)
       IN  /\ s.ok /\ s.kind = "object"
           /\ Len(keys) = Len(first) + Cardinality(DOMAIN r.Extra)
           /\ SubSeq(keys, 1, Len(first)) = first
           /\ Enumerates(SubSeq(keys, Len(first) + 1, Len(keys)), DOMAIN r.Extra)
           /\ \A i, j \in 1..Len(keys) : keys[i] = keys[j] => i = j
           /\ ~IsZero(r.Time) => ValuesOf(s.mem)[Len(first) - 1] = FormatRFC3339(r.Time)

\* C8: the output of MarshalJSON is valid JSON for every record, and is what
\* a standard JSON encoder writes for the same fields.
C8_ValidJSON ==
    call.op = "MarshalJSON"
    => /\ Valid(ret.str)
       /\ \E order \in Orders(DOMAIN call.recv.Extra) :
              ret.str = StdEncoded(call.recv, order)

\* C9: a record with an empty Version shows EmptyVersion in String(), in
\* Map() and in the JSON encoding, and its Version field is still empty
\* after the call.
C9_EmptyVersion ==
    (call.op \in {"String", "Map", "MarshalJSON"} /\ call.recv.Version = <<>>)
    => LET zero == <<"0", ".", "0", ".", "0">>
       IN  /\ bld.Version = <<>>
           /\ call.op = "String"
              => (HasPrefixAt(ret.str, 1, zero) /\ At(ret.str, 6) \in {"", " "})
           /\ call.op = "Map" => (keyVersion \in DOMAIN ret.map /\ ret.map[keyVersion] = zero)
           /\ call.op = "MarshalJSON"
              => HasPrefixAt(ret.str, 1,
                             <<"{", Q, "v", "e", "r", "s", "i", "o", "n", Q, ":", Q>>
                             \o zero \o <<Q, ",">>)

\* MarshalJSON of a record with an empty Version and a revision
C9_Witness ==
    /\ call.op = "MarshalJSON"
    /\ call.recv.Version = <<>>
    /\ call.recv.Revision = RevFed
    /\ bld.Version = <<>>

\* the input of the last UnmarshalJSON is a JSON object whose values are all
\* strings
StringObject == Scan(call.bytes).kind = "object" /\ ~Unmarshal(call.bytes).err

\* the keys of the input that are none of version, revision, time, goversion
UnknownKeys == DOMAIN Unmarshal(call.bytes).fields \ CodeReserved

MemberValues(bytes, k) ==
    LET s == Scan(bytes)
    IN  {s.mem[n].str : n \in {x \in 1..Len(s.mem) : s.mem[x].key = k}}

\* C11 as the specification states it: UnmarshalJSON never panics, and
\* returns an error exactly when the input is not valid JSON or has a time
\* value that is not an RFC 3339 timestamp.
C11_ErrorIffMalformed ==
    call.op = "UnmarshalJSON"
    => /\ ~ret.panicked
       /\ ret.err <=> \/ ~Valid(call.bytes)
                      \/ \E v \in MemberValues(call.bytes, keyTime) : ParseRFC3339(v).err

\* C11, amended: UnmarshalJSON never panics, and returns an error exactly
\* when the input does not decode into a map of strings (it is not valid
\* JSON, or not an object or null, or a member is neither a string nor
\* null) or when the time value, trimmed of white space, is not empty and is
\* not an RFC 3339 timestamp.
C11_ErrorIffUndecodable ==
    call.op = "UnmarshalJSON"
    => LET dec == Unmarshal(call.bytes)
           tim == TrimSpace(dec.fields[keyTime])
       IN  /\ ~ret.panicked
           /\ ret.err <=> \/ dec.err
                          \/ /\ keyTime \in DOMAIN dec.fields
                             /\ tim # <<>>
                             /\ ParseRFC3339(tim).err

\* UnmarshalJSON returned an error for a JSON object of strings whose time
\* value is not a timestamp
C11_Witness ==
    /\ call.op = "UnmarshalJSON"
    /\ call.bytes = DocBadTime
    /\ ret.err
    /\ ~ret.panicked

\* C12: New(ver) never fails: it returns a record whose Version is ver, also
\* when the binary carries no build information, and then Revision is
\* empty, Time is zero and the Go version is the runtime version.
C12_NewNeverFails ==
    call.op = "New"
    => /\ ~ret.panicked
       /\ bld.Version = call.value
       /\ ~info.ok => /\ bld.Revision = <<>>
                      /\ IsZero(bld.Time)
                      /\ GoVersionOf(bld) = RuntimeVersion

\* C13: New(altVersion) of the record that keeps the build information
\* returns a nil record and the error "no build information available"
\* exactly when the build information cannot be read; otherwise it returns a
\* record and a nil error, and Version() of that record is altVersion when
\* altVersion is not empty.
C13_NewError ==
    call.op = "New"
    => /\ (ret.nil /\ ret.err = "no build information available") <=> ~info.ok
       /\ info.ok => /\ ~ret.nil
                     /\ ret.err = ""
                     /\ call.value # <<>> => Version(bld, info).str = call.value

\* New("v1") returned a record in a binary whose main module has another
\* version
C13_Witness ==
    /\ call.op = "New"
    /\ call.value = V1
    /\ info.ok
    /\ info.MainVersion = Devel
    /\ ~ret.nil
    /\ bld.info = info

\* the last segment of path: what follows its last "/"
LastSegment(path) == SubSeq(path, LastIndex(path, "/") + 2, Len(path))

\* C14: without an alternative name, Name() is the last path segment of the
\* import path: "name-of-app" for "/my-project/cmd/name-of-app", "barbaz"
\* for "barbaz", "foobar" for "/foobar", and empty for "" and "/".
C14_LastSegment ==
    (call.op = "Name" /\ call.recv.AltName = <<>> /\ info.ok)
    => /\ ret.str = LastSegment(info.Path)
       /\ info.Path = PathFoobar => ret.str = <<"f", "o", "o", "b", "a", "r">>
       /\ info.Path = PathBarbaz => ret.str = PathBarbaz
       /\ info.Path \in {<<>>, PathRoot} => ret.str = <<>>

\* C15: the Go version is computed at most once per record and memoized.
\* After New, and after GoVersion(), the stored goVersion is not empty;
\* GoVersion() does not fail and returns the stored value, which a second
\* call returns again; and once goVersion is not empty, none of GoVersion,
\* Map, String, MarshalJSON, WithExtra and UnmarshalJSON changes it.
C15_Memoized ==
    /\ (call.op = "New" /\ ~ret.panicked) => bld.goVersion # <<>>
    /\ call.op = "GoVersion"
       => /\ ~ret.panicked /\ ~ret.err
          /\ bld.goVersion # <<>>
          /\ ret.str = bld.goVersion
          /\ GoVersionOf(bld) = ret.str
    /\ (/\ call.op \in {"GoVersion", "Map", "String", "MarshalJSON", "WithExtra",
                        "UnmarshalJSON"}
        /\ call.recv.goVersion # <<>>)
       => bld.goVersion = call.recv.goVersion

\* UnmarshalJSON of a text with a goversion key on a record whose goVersion
\* was stored before
C15_Witness ==
    /\ call.op = "UnmarshalJSON"
    /\ call.bytes = DocTime
    /\ ~ret.err
    /\ call.recv.goVersion = RuntimeVersion
    /\ bld.goVersion = RuntimeVersion

\* goroutine t is storing the field, or loading it
Writing(t) == call[t].pc = "store"
Reading(t) == call[t].pc \in {"check", "load"}

\* C16: when several goroutines call GoVersion() on one record, directly or
\* through Map, MarshalJSON or the handler, the runtime version is fetched
\* and stored at most once, no two goroutines store the field at the same
\* time, and none loads it while another stores it.
C16_FetchedOnce ==
    /\ hist.fetched <= 1
    /\ hist.stored <= 1
    /\ \A t, u \in Threads : (t # u /\ Writing(t)) => ~Writing(u) /\ ~Reading(u)

\* C17: serving a request leaves every field of the record, the memoized
\* goVersion too, as it was, for a zero-value record as for any other.
C17_PureRead ==
    call.op = "ServeHTTP" => bld = call.recv

\* the wall clock of the instant t in UTC; a zone is less than a day away
UTC(t) ==
    LET m == t.hour * 60 + t.minute - t.offset
        first == t.month = 1 /\ t.day = 1
        last == t.month = 12 /\ t.day = 31
        prev == IF t.day > 1 THEN [t EXCEPT !.day = @ - 1]
                ELSE IF first THEN [t EXCEPT !.year = @ - 1, !.month = 12, !.day = 31]
                ELSE [t EXCEPT !.month = @ - 1, !.day = DaysIn(t.month - 1, t.year)]
        next == IF t.day < DaysIn(t.month, t.year) THEN [t EXCEPT !.day = @ + 1]
                ELSE IF last THEN [t EXCEPT !.year = @ + 1, !.month = 1, !.day = 1]
                ELSE [t EXCEPT !.month = @ + 1, !.day = 1]
        day == IF m < 0 THEN prev ELSE IF m >= 1440 THEN next ELSE t
    IN  [day EXCEPT !.hour = (m % 1440) \div 60, !.minute = m % 60, !.offset = 0]

\* the HTTP date of the instant t (RFC 7231 IMF-fixdate, always in GMT)
HTTPDate(t) == FormatHTTP(UTC(t))

\* C18: the response of the handler has Content-Type application/json, a
\* body that is what MarshalJSON writes for the record, and a Last-Modified
\* header exactly when Time is not zero, holding the HTTP date of Time.
C18_Response ==
    call.op = "ServeHTTP"
    => LET r == call.recv
           h == ret.map
       IN  /\ ContentType \in DOMAIN h /\ h[ContentType] = ApplicationJson
           /\ \E order \in Orders(DOMAIN r.Extra) : ret.str = writeJson(r, order)
           /\ LastModified \in DOMAIN h <=> ~IsZero(r.Time)
           /\ LastModified \in DOMAIN h => h[LastModified] = HTTPDate(r.Time)

\* the record with every field at its placeholder
AllDummyV1 == BuildInfoV1("0.0.0", "abcdef", "dev", "1997-08-29 13:37:00")

\* C19: IsDummy(record) is true exactly when Version, Revision, Branch and
\* Date all hold their placeholders; a record that differs from the
\* all-placeholder record in a single field gives false.
C19_IsDummy ==
    call.op = "IsDummy"
    => /\ ret.ok <=> call.recv = AllDummyV1
       /\ \A f \in DOMAIN AllDummyV1 :
              (/\ call.recv[f] # AllDummyV1[f]
               /\ \A g \in DOMAIN AllDummyV1 \ {f} : call.recv[g] = AllDummyV1[g])
              => ~ret.ok

\* IsDummy of the all-placeholder record after its branch alone was changed
C19_Witness ==
    /\ call.op = "IsDummy"
    /\ call.recv = [AllDummyV1 EXCEPT !.Branch = "v1"]
    /\ ~ret.ok

\* the record Dummy makes of the empty record
AllDummyGit == BuildInfoGit("0.0.0", "1997-08-29 13:37:00", "HEAD", "abcdef")

\* C20: Dummy(record) sets each of Version, Date, Branch and Commit that is
\* empty to its placeholder and leaves every other field as it was; the
\* all-empty record becomes the all-placeholder record; a second
\* application changes nothing.
C20_Dummy ==
    call.op = "Dummy"
    => /\ \A f \in DOMAIN AllDummyGit :
              bld[f] = IF call.recv[f] = "" THEN AllDummyGit[f] ELSE call.recv[f]
       /\ DOMAIN bld = DOMAIN call.recv
       /\ call.recv = BuildInfoGit("", "", "", "") => bld = AllDummyGit
       /\ Dummy(bld) = bld

\* Dummy of a record with a version and nothing else
C20_Witness ==
    /\ call.op = "Dummy"
    /\ call.recv = BuildInfoGit("v1", "", "", "")
    /\ bld = [AllDummyGit EXCEPT !.Version = "v1"]

\* ----------------------------------------------------------- claims C21..C30
\* the tag, and the version of the tag, that the run of the state works on
TagLookup == IF call.latest THEN LatestTag(info) ELSE CurrentTag(info)
TagFound == TagLookup.err.kind = "nil"
VersionParsed == TagFound /\ ~NewVersion(TagLookup.tag).err
TagVersion == NewVersion(TagLookup.tag).v

\* the sole argument of the run is a template that parses and evaluates
Renders ==
    /\ call.op = "run"
    /\ isTemplate(call.args)
    /\ VersionParsed
    /\ ~ParseTemplate(call.args[1]).err
    /\ ~ExecuteTemplate(ParseTemplate(call.args[1]).nodes, 1, TagVersion).err
Rendered == ExecuteTemplate(ParseTemplate(call.args[1]).nodes, 1, TagVersion).out

\* C21: a run with exactly one argument holding the delimiters "{{" and "}}"
\* renders that argument as a template over the version accessors, writes
\* only the rendered text to standard output, returns no error and the
\* process exits with code 0.
C21_TemplateRendered ==
    Renders => /\ ret.err.kind = "nil"
               /\ ret.exit = 0
               /\ ret.stdout = Rendered
               /\ ret.out = Rendered

\* the value a selector stands for, from the version of the tag and the
\* details of the tag
TagDetailsOf == TagDetails(info, TagVersion.original)
SelectorValue(arg) ==
    LET lower == ToLower(arg)
        v == TagVersion
    IN  IF lower \in {<<"r", "e", "v", "i", "s", "i", "o", "n">>, <<"r", "e", "v">>} THEN TagDetailsOf.revision
        ELSE IF lower = <<"t", "i", "m", "e">> THEN FormatRFC3339(TagDetailsOf.time)
        ELSE IF lower = <<"o", "r", "i", "g", "i", "n", "a", "l">> THEN v.original
        ELSE IF lower = <<"f", "u", "l", "l">> THEN SemverString(v)
        ELSE IF lower \in {<<"v", "e", "r", "s", "i", "o", "n">>, <<"m", "a", "j", "o", "r", ".", "m", "i", "n", "o", "r", ".", "p", "a", "t", "c", "h">>}
        THEN FormatUint(v.major) \o <<".">> \o FormatUint(v.minor) \o <<".">> \o FormatUint(v.patch)
        ELSE IF lower = <<"m", "a", "j", "o", "r", ".", "m", "i", "n", "o", "r">> THEN FormatUint(v.major) \o <<".">> \o FormatUint(v.minor)
        ELSE IF lower = <<"m", "a", "j", "o", "r">> THEN FormatUint(v.major)
        ELSE IF lower = <<"m", "i", "n", "o", "r">> THEN FormatUint(v.minor)
        ELSE IF lower = <<"p", "a", "t", "c", "h">> THEN FormatUint(v.patch)
        ELSE IF lower = <<"+", "p", "a", "t", "c", "h">>
        THEN FormatUint(v.major) \o <<".">> \o FormatUint(v.minor) \o <<".">>
             \o FormatUint(IF v.pre # <<>> THEN v.patch ELSE v.patch + 1)
        ELSE IF lower = <<"+", "m", "i", "n", "o", "r">>
        THEN FormatUint(v.major) \o <<".">> \o FormatUint(v.minor + 1) \o <<".", "0">>
        ELSE FormatUint(v.major + 1) \o <<".", "0", ".", "0">>

\* the strings of a list joined by single spaces
RECURSIVE JoinSpace(_)
JoinSpace(strs) ==
    IF strs = <<>> THEN <<>>
    ELSE IF Len(strs) = 1 THEN strs[1]
    ELSE strs[1] \o <<" ">> \o JoinSpace(Tail(strs))

IsSelector(arg) == ToLower(arg) \in Selectors
NeedsDetails(arg) == ToLower(arg) \in {<<"r", "e", "v", "i", "s", "i", "o", "n">>, <<"r", "e", "v">>, <<"t", "i", "m", "e">>}

\* the run is given selectors only, of a tag that is a version, and the
\* details of the tag can be had when a selector asks for them
SelectorsOnly ==
    /\ call.op = "run"
    /\ Len(call.args) >= 1
    /\ \A i \in 1..Len(call.args) : IsSelector(call.args[i])
    /\ VersionParsed
    /\ (\E i \in 1..Len(call.args) : NeedsDetails(call.args[i]))
           => TagDetailsOf.err.kind = "nil"

\* C22: given one or more selectors, run resolves each one on its own and
\* prints the results joined by exactly one space, in the order of the
\* arguments; for tag v1.2.3 and [major, minor, patch] it prints "1 2 3".
C22_Joined ==
    /\ SelectorsOnly =>
          /\ ret.err.kind = "nil"
          /\ ret.stdout = JoinSpace([i \in 1..Len(call.args) |-> SelectorValue(call.args[i])])
          /\ ret.out = ret.stdout
    /\ (info = RepoTagged /\ call = RunCall(<<ArgMajor, ArgMinor, ArgPatch>>, FALSE))
          => ret.stdout = <<"1", " ", "2", " ", "3">>

C22_Witness ==
    /\ info = RepoTagged
    /\ call = RunCall(<<ArgMajor, ArgMinor, ArgPatch>>, FALSE)
    /\ SelectorsOnly
    /\ ret.stdout = <<"1", " ", "2", " ", "3">>

\* an argument that is no selector (empty arguments are skipped), and the
\* place of the first one in the argument list
IsUnknown(arg) == arg # <<>> /\ ~IsSelector(arg)
HasUnknown ==
    /\ call.op = "run"
    /\ ~isTemplate(call.args)
    /\ \E i \in 1..Len(call.args) : IsUnknown(call.args[i])
FirstUnknown ==
    CHOOSE i \in 1..Len(call.args) :
        IsUnknown(call.args[i]) /\ \A j \in 1..(i - 1) : ~IsUnknown(call.args[j])

\* the loop of run gets as far as the first unknown argument: the tag was
\* found and is a version, and no selector before it failed to get the details
ReachesUnknown ==
    /\ VersionParsed
    /\ (\E j \in 1..(FirstUnknown - 1) : NeedsDetails(call.args[j]))
           => TagDetailsOf.err.kind = "nil"

\* C23 as stated: when any selector is unknown, run fails with an error that
\* names it and has written nothing to standard output, wherever the unknown
\* selector stands.
C23_UnknownNamed ==
    HasUnknown =>
        /\ ret.err.kind = "invalid"
        /\ Contains(ret.err.msg, call.args[FirstUnknown])
        /\ ret.stdout = <<>>

\* C23 amended: when a selector is unknown, run fails and has written nothing
\* to standard output, wherever the unknown selector stands; the error names
\* the first unknown argument when the tag was found, is a version, and no
\* revision or time selector before it failed, and is the error of that
\* earlier step otherwise.
C23_UnknownFails ==
    HasUnknown =>
        /\ ret.err.kind # "nil"
        /\ ret.exit # 0
        /\ ret.stdout = <<>>
        /\ IF ReachesUnknown
           THEN /\ ret.err.kind = "invalid"
                /\ Contains(ret.err.msg, <<Grave>> \o call.args[FirstUnknown] \o <<Grave>>)
           ELSE ret.err.kind \in {"exit", "exec", "semver"}

C23_Witness ==
    /\ HasUnknown
    /\ ReachesUnknown
    /\ FirstUnknown = 3
    /\ NeedsDetails(call.args[1])
    /\ ret.err.kind = "invalid"
    /\ ret.stdout = <<>>

\* the git describe call of a run in current-tag mode failed, and its
\* diagnostic says that there is no tag to describe HEAD with
DescribeFailed == call.op = "run" /\ ~call.latest /\ info.describe.err.kind # "nil"
SaysNoTag ==
    /\ info.describe.err.kind = "exit"
    /\ \/ Contains(info.describe.err.stderr, <<"N", "o", " ", "n", "a", "m", "e", "s", " ", "f", "o", "u", "n", "d">>)
       \/ Contains(info.describe.err.stderr, <<"c", "a", "n", "n", "o", "t", " ", "d", "e", "s", "c", "r", "i", "b", "e">>)

\* C24: in current-tag mode, when git describe fails with a diagnostic that
\* contains "No names found" or "cannot describe", CurrentTag returns the tag
\* "0.0.0", an empty remainder and a nil error; any other failure of the call
\* is returned as an error.
C24_CurrentTagDefault ==
    DescribeFailed =>
        IF SaysNoTag
        THEN ret.lookup = [tag |-> <<"0", ".", "0", ".", "0">>, remains |-> <<>>, err |-> NoError]
        ELSE /\ ret.lookup.err = info.describe.err
             /\ ret.lookup.err.kind # "nil"
             /\ ret.err = info.describe.err

C24_Witness ==
    /\ DescribeFailed
    /\ SaysNoTag
    /\ ~Contains(info.describe.err.stderr, <<"N", "o", " ", "n", "a", "m", "e", "s", " ", "f", "o", "u", "n", "d">>)
    /\ ret.lookup.tag = <<"0", ".", "0", ".", "0">>
    /\ ret.lookup.err.kind = "nil"

\* C25: a repository without tags is never an error for the tool: in
\* latest-tag mode as well as in current-tag mode, run resolves the tag to the
\* placeholder "0.0.0" and returns no error, with or without selectors.
C25_NoTagsNoError ==
    (call.op = "run" /\ info = RepoNoTags /\ \A i \in 1..Len(call.args) : IsSelector(call.args[i]))
        => /\ ret.lookup.tag = <<"0", ".", "0", ".", "0">>
           /\ ret.err.kind = "nil"
           /\ ret.exit = 0

\* C26: given no arguments, run prints the tag that git reported unmodified,
\* the full tag name with nothing removed or added, and returns no error; the
\* tag is not parsed as a semantic version.
C26_RawTag ==
    (call.op = "run" /\ call.args = <<>> /\ ~call.latest /\ info.describe.err.kind = "nil")
        => /\ ret.err.kind = "nil"
           /\ ret.stdout \o <<"\n">> = info.describe.out

\* the number of revision and time requests among the arguments of the run
Requests == {i \in 1..Len(call.args) : NeedsDetails(call.args[i])}

\* C27: within one run, whatever the sequence of revision and time requests,
\* the details of the tag are fetched at most once: the first request
\* fetches revision and time together, and every later request is answered
\* from the pair that was kept.
C27_DetailsFetchedOnce ==
    call.op = "run" =>
        /\ hist.fetched <= 1
        /\ hist.fetched = 1 => Requests # {}
        /\ (ret.err.kind = "nil" /\ Requests # {}) =>
              /\ hist.fetched = 1
              /\ bld.revision = TagDetailsOf.revision
              /\ bld.time = TagDetailsOf.time
              /\ \A i \in Requests :
                     Contains(ret.stdout, IF ToLower(call.args[i]) = ArgTime
                                          THEN FormatRFC3339(bld.time) ELSE bld.revision)

C27_Witness ==
    /\ call.op = "run"
    /\ call.args = <<ArgRev, ArgTime, ArgRev>>
    /\ ret.err.kind = "nil"
    /\ hist.fetched = 1
    /\ bld.revision = RevAbc
    /\ bld.time = TimeAbc

\* C28: a Generator calls its version reader at most once: after a successful
\* ReadContext has stored a version under VersionVar (what the reader
\* returned, or DefaultVersion when it returned the empty string), a later
\* ExecuteContext renders with the stored version and does not call the
\* reader again; an error of the reader is returned and leaves Vars unchanged.
C28_ReadOnce ==
    /\ (call.op = "ExecuteContext" /\ call.stored = 1) =>
          /\ hist.fetched = call.reads
          /\ bld = call.recv
          /\ ~ret.err
          /\ ret.out = "version " \o call.recv.Version
    /\ (call.op \in {"ReadContext", "ExecuteContext"} /\ ret.err) => bld = call.recv

RECURSIVE JoinNonEmpty(_)
JoinNonEmpty(strs) ==
    IF strs = <<>> THEN ""
    ELSE IF strs[1] = "" THEN JoinNonEmpty(Tail(strs))
    ELSE IF JoinNonEmpty(Tail(strs)) = "" THEN strs[1]
    ELSE strs[1] \o ", " \o JoinNonEmpty(Tail(strs))

====
